---------------------------- MODULE OrderControl ----------------------------
(***************************************************************************)
(* The callers that steer orders by hand and by plan, on one token: the    *)
(* operator's forced exit, cancellation (one order or a list) and          *)
(* replacement (app/operator_service.py, app/operator_order_control.py),   *)
(* the reconcile planner's cancellation of BUYs that rest too long         *)
(* (recovery/action_applier.py), and the gateway and the risk gates they   *)
(* pass or do not pass (pipeline/execution/order_gateway.py,               *)
(* domain/risk.py), beside the exchange that holds the orders.             *)
(*                                                                         *)
(* A request that is refused before it reaches the gateway changes nothing *)
(* and is no action.  How the account catches up with the exchange is      *)
(* AccountProjection; here Feedback brings it the whole truth at once.     *)
(***************************************************************************)
EXTENDS Integers, FiniteSets, FiniteSetsExt

CONSTANTS
    RestingBuys, RestingSells,  \* orders of one share that may rest at the start, placed by hand or before a restart
    Placed,                     \* which of them do
    NewOrders,                  \* the orders exits and replacements may become
    Operators,                  \* requests of the operator, each served by a coroutine of its own
    Planner,                    \* the reconcile round
    Holding,                    \* shares held at the start
    MaxSize,                    \* bound: shares of a replacement
    BulkLimit                   \* orders a list of cancellations is cut to (20 in the code)

Orders == RestingBuys \cup RestingSells \cup NewOrders
Desks == Operators \cup {Planner}

VARIABLES
    orders,    \* the exchange: what became of each order, its side and size, and the order it replaced
    held,      \* the exchange: shares
    account,   \* AccountStateStore: shares, and the open BUYs and SELLs it lists
    caller,    \* what each request is doing
    blind,     \* history: was anything asked on an account that was not the exchange's?
    skipped    \* history: orders a finished list named and left unasked though the account lists them

vars == <<orders, held, account, caller, blind, skipped>>

OrderShape == [fate : {"unused", "sent", "resting", "filled", "closed", "short"},
               side : {"buy", "sell"}, size : Nat, replaces : SUBSET Orders]

Live(s) == {o \in Orders : orders[o].fate \in {"sent", "resting"} /\ orders[o].side = s}
SharesOf(S) == MapThenSumSet(LAMBDA o : orders[o].size, S)

(* Does the account say what the exchange says, orders under way included? *)
Exact == /\ account.shares = held
         /\ account.sells = Live("sell")
         /\ account.buys = Live("buy")

(* A request at work: the order it waits for, the orders its list still holds,  *)
(* those the list named, and the shares of the snapshot it was planned on.      *)
Idle == [doing |-> "idle", order |-> {}, left |-> {}, named |-> {}, shares |-> 0]
Listed == account.buys \cup account.sells

Init ==
    /\ \E P \in Placed :
          /\ orders = [o \in Orders |->
                          [fate |-> IF o \in NewOrders THEN "unused"
                                    ELSE IF o \in P THEN "resting" ELSE "closed",
                           side |-> IF o \in RestingBuys THEN "buy" ELSE "sell",
                           size |-> 1, replaces |-> {}]]
          /\ account = [shares |-> Holding, buys |-> P \cap RestingBuys, sells |-> P \cap RestingSells]
    /\ held = Holding
    /\ caller = [d \in Desks |-> Idle]
    /\ blind = FALSE
    /\ skipped = {}

----------------------------------------------------------------------------
(* The gates. *)

(* The registry says what TradingStatus the market has, at each look. *)
Statuses == {"eligible", "candidate", "paused", "closed"}

(* market_status_allowed_for_manual_order; "closed" stands for RESOLVED and REJECTED too *)
Operable(status) == status # "closed"

(* RiskManager.check_order_intent of a SELL that the position covers: the other *)
(* gates look at BUYs alone.                                                    *)
RiskPasses(status, size) == \/ status = "eligible"
                            \/ status = "candidate" /\ size > 0 /\ account.shares >= size

(* The side of the order that replaces o: auth.py posts a SELL, always. *)
ReplacementSide(o) == "sell"

----------------------------------------------------------------------------
(* OperatorService.force_exit_position *)

(* Mutant: what is already for sale is not taken off. *)
ExitSharesOfAll == account.shares

(* Shares that no listed SELL offers yet. *)
ExitShares == account.shares - SharesOf(account.sells)

ForceExit(d, p, status) ==
    /\ caller[d] = Idle
    /\ Operable(status)
    /\ account.shares > 0
    /\ ExitShares > 0
    /\ RiskPasses(status, ExitShares)
    /\ orders[p].fate = "unused"
    /\ orders' = [orders EXCEPT ![p].fate = "sent", ![p].size = ExitShares]
    /\ caller' = [caller EXCEPT ![d] = [Idle EXCEPT !.doing = "exiting", !.order = {p}]]
    /\ blind' = (blind \/ ~Exact)
    /\ UNCHANGED <<held, account, skipped>>

(* The answer, or that there is none in time, is returned and projected nowhere. *)
AnswerExit(d) ==
    /\ caller[d].doing = "exiting"
    /\ caller' = [caller EXCEPT ![d] = Idle]
    /\ UNCHANGED <<orders, held, account, blind, skipped>>

----------------------------------------------------------------------------
(* OperatorService.bulk_cancel_orders: cancel_order for each of the first      *)
(* BulkLimit orders, in turn.  One cancellation is a list of one.              *)

AskBulkCancel(d, S) ==
    /\ caller[d] = Idle
    /\ S # {} /\ Cardinality(S) <= BulkLimit
    /\ caller' = [caller EXCEPT ![d] = [Idle EXCEPT !.doing = "cancelling", !.left = S, !.named = S]]
    /\ UNCHANGED <<orders, held, account, blind, skipped>>

(* What the exchange makes of a cancellation: an order it no longer has stays  *)
(* what it is, one it has it closes, or it does not (the request is lost).     *)
CancelAt(o) ==
    \/ /\ orders[o].fate = "resting"
       /\ orders' = [orders EXCEPT ![o].fate = "closed"]
    \/ UNCHANGED orders

(* An answer, good or bad, is written down and the next order follows. *)
RestOfList(left, ok) == left

(* The next order of the list is looked up in a fresh snapshot, asked about if  *)
(* the account lists it, and answered.                                          *)
CancelNext(d, o) ==
    /\ caller[d].doing = "cancelling"
    /\ o \in caller[d].left
    /\ IF o \in Listed THEN CancelAt(o) ELSE UNCHANGED orders
    /\ LET passedOver == caller[d].named \ {o}
       IN  \E ok \in BOOLEAN :
              LET rest == RestOfList(caller[d].left \ {o}, ok)
              IN  IF rest # {}
                  THEN /\ caller' = [caller EXCEPT ![d].left = rest, ![d].named = passedOver]
                       /\ UNCHANGED skipped
                  ELSE /\ caller' = [caller EXCEPT ![d] = Idle]
                       /\ skipped' = skipped \cup (passedOver \cap Listed)
    /\ UNCHANGED <<held, account, blind>>

----------------------------------------------------------------------------
(* OperatorOrderControl.replace_order: a cancellation and a new order in one   *)
(* request.  No risk gate is asked, and the size is the caller's.              *)

ReplaceOrder(d, o, p, size, status) ==
    /\ Operable(status)
    /\ o \in Listed
    /\ caller[d] = Idle
    /\ orders[p].fate = "unused"
    /\ \E gone \in BOOLEAN :
          /\ gone => orders[o].fate = "resting"
          /\ orders' = [orders EXCEPT ![o].fate = IF gone THEN "closed" ELSE @,
                                      ![p] = [fate |-> "sent", side |-> ReplacementSide(o),
                                              size |-> size, replaces |-> {o}]]
    /\ caller' = [caller EXCEPT ![d] = [Idle EXCEPT !.doing = "replacing", !.order = {p}]]
    /\ blind' = (blind \/ ~Exact \/ size > orders[o].size)
    /\ UNCHANGED <<held, account, skipped>>

(* apply_replace_result: the source leaves the account whatever became of it,  *)
(* and the new order takes its place on the side the source was listed on.     *)
Replaced(listed, o, p, answer) ==
    IF answer \in {"resting", "filled"} /\ o \in listed THEN (listed \ {o}) \cup {p} ELSE listed \ {o}

AnswerReplace(d) ==
    /\ caller[d].doing = "replacing"
    /\ \E p \in caller[d].order : \E o \in orders[p].replaces :
       \E answer \in {orders[p].fate, "unknown"} \ {"sent"} :
          account' = IF answer \in {"closed", "short"} THEN account
                     ELSE [account EXCEPT !.buys = Replaced(@, o, p, answer),
                                          !.sells = Replaced(@, o, p, answer)]
    /\ caller' = [caller EXCEPT ![d] = Idle]
    /\ UNCHANGED <<orders, held, blind, skipped>>

----------------------------------------------------------------------------
(* The reconcile round: workflow/recovery.py cancels BUYs that rest too long.  *)

PlanCancels(S) ==
    /\ caller[Planner] = Idle
    /\ S # {}
    /\ S \subseteq account.buys
    /\ caller' = [caller EXCEPT ![Planner] = [Idle EXCEPT !.doing = "planned", !.left = S,
                                                          !.shares = account.shares]]
    /\ UNCHANGED <<orders, held, account, blind, skipped>>

CancelPlanned(o) ==
    /\ caller[Planner].order = {}
    /\ o \in caller[Planner].left
    /\ caller' = [caller EXCEPT ![Planner].left = @ \ {o}, ![Planner].order = {o}]
    /\ CancelAt(o)
    /\ UNCHANGED <<held, account, blind, skipped>>

(* Told that it is cancelled (a refusal without a reason says so too), the     *)
(* round takes the order off and writes back the position of its plan.         *)
AnswerPlanned ==
    /\ caller[Planner].order # {}
    /\ \/ account' = [account EXCEPT !.buys = @ \ caller[Planner].order,
                                      !.sells = @ \ caller[Planner].order,
                                      !.shares = caller[Planner].shares]
       \/ UNCHANGED account
    /\ caller' = [caller EXCEPT ![Planner] = IF @.left = {} THEN Idle ELSE [@ EXCEPT !.order = {}]]
    /\ UNCHANGED <<orders, held, blind, skipped>>

----------------------------------------------------------------------------
(* The exchange, and the feedback of it. *)

Resting(s) == {o \in Orders : orders[o].fate = "resting" /\ orders[o].side = s}

(* A SELL is taken if the shares that no other SELL offers cover it. *)
Take(o) ==
    /\ orders[o].fate = "sent"
    /\ orders' = [orders EXCEPT ![o].fate =
                      IF orders[o].size > held - SharesOf(Resting("sell")) THEN "short" ELSE "resting"]
    /\ UNCHANGED <<held, account, caller, blind, skipped>>

Close(o) ==
    /\ orders[o].fate \in {"sent", "resting"}
    /\ orders' = [orders EXCEPT ![o].fate = "closed"]
    /\ UNCHANGED <<held, account, caller, blind, skipped>>

Fill(o) ==
    /\ orders[o].fate = "resting"
    /\ orders' = [orders EXCEPT ![o].fate = "filled"]
    /\ held' = IF orders[o].side = "buy" THEN held + orders[o].size ELSE held - orders[o].size
    /\ UNCHANGED <<account, caller, blind, skipped>>

Feedback ==
    /\ account' = [shares |-> held, buys |-> Resting("buy"), sells |-> Resting("sell")]
    /\ UNCHANGED <<orders, held, caller, blind, skipped>>

Next ==
    \/ \E d \in Operators :
          \/ \E p \in NewOrders, status \in Statuses : ForceExit(d, p, status)
          \/ AnswerExit(d)
          \/ \E S \in SUBSET Orders : AskBulkCancel(d, S)
          \/ \E o \in Orders : CancelNext(d, o)
          \/ \E o \in Orders, p \in NewOrders, size \in 1 .. MaxSize, status \in Statuses :
                 ReplaceOrder(d, o, p, size, status)
          \/ AnswerReplace(d)
    \/ \E S \in SUBSET RestingBuys : PlanCancels(S)
    \/ \E o \in Orders : CancelPlanned(o)
    \/ AnswerPlanned
    \/ \E o \in Orders : Take(o) \/ Close(o) \/ Fill(o)
    \/ Feedback

Spec == Init /\ [][Next]_vars

----------------------------------------------------------------------------
TypeOK ==
    /\ orders \in [Orders -> OrderShape]
    /\ held \in Nat
    /\ account \in [shares : Nat, buys : SUBSET Orders, sells : SUBSET Orders]
    /\ caller \in [Desks -> [doing : {"idle", "exiting", "cancelling", "replacing", "planned"},
                             order : SUBSET Orders, left : SUBSET Orders, named : SUBSET Orders,
                             shares : Nat]]
    /\ blind \in BOOLEAN
    /\ skipped \in SUBSET Orders

(* An exit is never refused for want of shares ("not enough balance") because  *)
(* the desk asked for more than was left: the exchange refuses one only if some *)
(* request was made on an account that was not the exchange's at the time, or  *)
(* a replacement asked for more than it replaced.                              *)
ExitsFit ==
    (\E p \in NewOrders : orders[p].fate = "short" /\ orders[p].replaces = {}) => blind

(* A list of cancellations asks for every order on it that the account lists,  *)
(* whatever the answers to the others ("失败不影响后续条目").                     *)
BulkReachesAll == skipped = {}
=============================================================================
