--------------------------- MODULE DecisionWorker ---------------------------
(***************************************************************************)
(* MarketTickWorker with the result processor, the order gateway and the   *)
(* risk gates: one task that takes book events and order events in turn,   *)
(* decides a BUY on a snapshot of the account and keeps a lifecycle for    *)
(* every market, while the exchange, the user channel, the REST poll, the  *)
(* operator and the pruning of markets go on between its awaits.           *)
(*                                                                         *)
(* Every BUY has a stake of one. A market stands for the token the signal  *)
(* is about. The worker sells nothing: its decider holds every position.   *)
(***************************************************************************)
EXTENDS Integers, FiniteSets, Sequences

CONSTANTS
    Markets,
    Attempts,   \* bound: BUYs of one market that may reach the executor
    LaneLimit,  \* bound: order events waiting for the worker
    Gates,      \* the switches that may be shut: of a market, or of all entries
    AllEntries, \* the switch of all entries
    Doomed,     \* the orders whose trade may fail at settlement
    Cash,       \* cash at the exchange when the program starts
    Budget      \* portfolio_budget_usdc

Orders == Markets \X (1..Attempts)
MarketOf(o) == o[1]

ASSUME CountsAssumption ==
    /\ Attempts \in Nat \ {0} /\ LaneLimit \in Nat /\ Cash \in Nat /\ Budget \in Nat
    /\ IsFiniteSet(Markets)
ASSUME GatesAssumption == Gates \subseteq Markets \cup {AllEntries} /\ Doomed \subseteq Orders

VARIABLES
    life,     \* _market_lifecycle
    worker,   \* what the worker is doing
    lane,     \* order events waiting for it
    venue,    \* what became of each order at the exchange
    behind,   \* orders whose last change the user channel has not reported
    account,  \* AccountStateStore: markets held, open orders, balance
    poll,     \* the view a running REST poll will write
    window,   \* markets in the executor's confirmation window
    tracked,  \* markets of the registry that may be traded
    closed,   \* the gates that are shut
    told,     \* history: whether the worker was told what became of each order
    forgot,   \* history: markets pruned since one of their orders went out
    late      \* history: orders sent for a market since its gate was shut

account_vars == <<account, poll>>
venue_vars == <<venue, behind>>
history == <<told, forgot, late>>
vars == <<life, worker, lane, venue, behind, account, poll, window, tracked, closed, told, forgot, late>>

Executed(v) == {o \in Orders : v[o] = "matched"}
Resting(v) == {o \in Orders : v[o] = "resting"}
Idle == [doing |-> "nothing", orders |-> {}, heard |-> "nothing"]
OrderAtHand == CHOOSE o \in worker.orders : TRUE

Min2(a, b) == IF a < b THEN a ELSE b

----------------------------------------------------------------------------
(* The decision, on the account as it is when the event is taken. *)

(* snapshot.allow_new_entries, snapshot.is_market_paused *)
IsShut(m) == {AllEntries, m} \cap closed # {}

(* Mutant: only the switch of all entries is looked at. *)
GateClosedForAll(m) == AllEntries \in closed

(* _entry_gate_closed_for_event, and again build_trade_plan *)
GateClosed(m) == IsShut(m)

(* snapshot.available_usdc: an open BUY reserves its stake until a poll. *)
Available == account.balance - Cardinality(account.open)

(* _resolve_bankroll and kelly_plan: of the bankroll only the exposure of the  *)
(* market at hand is deducted, and an open FAK BUY counts as none.             *)
Stakeable(m) == Min2(Available, Budget) - (IF m \in account.held THEN 1 ELSE 0)

(* quant_decide: with a position the decider holds; without a signal, which is *)
(* the environment's, nothing is staked.                                       *)
Wanted(m) == m \notin account.held /\ Stakeable(m) >= 1

(* market_has_exposure *)
HasExposure(m) == m \in account.held \/ \E o \in account.open : MarketOf(o) = m

(* Mutant: the lifecycle of a position no longer stops an entry. *)
AllowsEntryIgnoringPosition(state) == state # "paused"

(* Mutant: a paused market may be tried again. *)
AllowsEntryWhilePaused(state) == state # "position_open"

(* _state_allows_entry_attempt: no decision carries the tag scale_in. *)
AllowsEntry(state) == state \notin {"paused", "position_open"}

(* check_order_intent: of the four gates only the fee on top of the stake can  *)
(* object to what the plan was made from, when no more than the stake is left. *)
RiskMayRefuse == Available = 1

Unsent(m) == {o \in Orders : MarketOf(o) = m /\ venue[o] = "unsent"}
NextOrder(m) == CHOOSE o \in Unsent(m) : \A p \in Unsent(m) : o[2] <= p[2]

(* An event for a market with an open gate and no signal: the skip is        *)
(* published, and then the market is watched again.                          *)
TickSkip(m) ==
    /\ worker = Idle
    /\ m \in tracked
    /\ ~GateClosed(m)
    /\ AllowsEntry(life[m])
    /\ worker' = [doing |-> "skipping", orders |-> {<<m, 1>>}, heard |-> "nothing"]
    /\ life' = [life EXCEPT ![m] = IF @ = "none" THEN "watching" ELSE @]
    /\ UNCHANGED <<lane, venue_vars, account_vars, window, tracked, closed, history>>

EndSkip ==
    /\ worker.doing = "skipping"
    /\ life' = [life EXCEPT ![MarketOf(OrderAtHand)] = "watching"]
    /\ worker' = Idle
    /\ UNCHANGED <<lane, venue_vars, account_vars, window, tracked, closed, history>>

(* A signal: the plan goes through the risk gates to the executor, which       *)
(* refuses at once while the confirmation window of the market is open.        *)
TickEnter(m) ==
    /\ worker = Idle
    /\ m \in tracked
    /\ ~GateClosed(m)
    /\ Wanted(m)
    /\ AllowsEntry(life[m])
    /\ life' = [life EXCEPT ![m] = "submitting"]
    /\ \/ /\ RiskMayRefuse \/ m \in window
          /\ worker' = [doing |-> "handling", orders |-> {<<m, 1>>}, heard |-> "rejected"]
          /\ UNCHANGED venue
       \/ /\ m \notin window
          /\ Unsent(m) # {}
          /\ worker' = [doing |-> "sending", orders |-> {NextOrder(m)}, heard |-> "nothing"]
          /\ venue' = [venue EXCEPT ![NextOrder(m)] = "handed"]
    /\ UNCHANGED <<lane, behind, account_vars, window, tracked, closed, history>>

(* The executor reaches the exchange some time after it was given the order,   *)
(* and the call may still be on its way when the answer is given up.           *)
Post(o) ==
    /\ venue[o] = "handed"
    /\ venue' = [venue EXCEPT ![o] = "sent"]
    /\ late' = [late EXCEPT ![MarketOf(o)] =
                    IF IsShut(MarketOf(o)) THEN Min2(@ + 1, 2) ELSE @]
    /\ UNCHANGED <<life, worker, lane, behind, account_vars, window, tracked, closed, told, forgot>>

(* What an answer may say. The adapter makes a rejection of every exception of *)
(* the SDK that carries a message (_normalize_api_exception), a lost response  *)
(* among them: an order that matched, rests or is on its way may be reported   *)
(* as rejected.                                                                *)
Answers(o) ==
    IF venue[o] = "handed" THEN {"unknown"}
    ELSE {"unknown", "failed", "rejected"} \cup
            CASE venue[o] = "matched" -> {"full_fill"}
              [] venue[o] = "resting" -> {"live"}
              [] venue[o] = "closed" -> {"no_fill"}
              [] OTHER -> {}

(* The worker was not told what became of its order, or was told wrong. *)
LeavesDoubt(o, status) ==
    status \in {"unknown", "failed"} \/ (status = "rejected" /\ venue[o] # "closed")

Answer ==
    /\ worker.doing = "sending"
    /\ \E status \in Answers(OrderAtHand) :
          /\ worker' = [worker EXCEPT !.doing = "handling", !.heard = status]
          /\ told' = [told EXCEPT ![OrderAtHand] =
                          CASE LeavesDoubt(OrderAtHand, status) -> "doubt"
                            [] status = "live" -> "rests"
                            [] OTHER -> "sure"]
          /\ window' = IF status = "unknown" THEN window \cup {MarketOf(OrderAtHand)} ELSE window
    /\ UNCHANGED <<life, lane, venue_vars, account_vars, tracked, closed, forgot, late>>

WindowCloses(m) ==
    /\ m \in window
    /\ window' = window \ {m}
    /\ UNCHANGED <<life, worker, lane, venue_vars, account_vars, tracked, closed, history>>

----------------------------------------------------------------------------
(* TradingOrderResultProcessor.handle *)

(* _transition_from_order_result, then the branches of the processor: a       *)
(* failed entry ends in ENTRY_REJECTED, since no risk decision is retryable.  *)
AfterBuy(status, state) ==
    CASE status = "full_fill" -> "position_open"
      [] status = "no_fill" -> "ready"
      [] status = "live" -> "paused"
      [] status \in {"rejected", "failed", "unknown"} -> "rejected"
      [] OTHER -> state

(* The result of the order just sent; a resting BUY is cancelled first. *)
HandleResult ==
    /\ worker.doing = "handling"
    /\ LET m == MarketOf(OrderAtHand)
       IN  /\ life' = [life EXCEPT ![m] = AfterBuy(worker.heard, @)]
           /\ account' = IF worker.heard = "full_fill"
                         THEN [account EXCEPT !.held = @ \cup {m}] ELSE account
           /\ worker' = IF worker.heard = "live" THEN [worker EXCEPT !.doing = "cancelling"] ELSE Idle
    /\ UNCHANGED <<lane, venue_vars, poll, window, tracked, closed, history>>

(* _cancel_unexpected_resting_order: the cancellation may come too late or     *)
(* fail; the market is paused whatever it did.                                 *)
CancelResting ==
    /\ worker.doing = "cancelling"
    /\ LET o == OrderAtHand
       IN  /\ \/ /\ venue[o] = "resting"
                 /\ venue' = [venue EXCEPT ![o] = "closed"]
                 /\ behind' = behind \cup {o}
              \/ UNCHANGED venue_vars
           /\ life' = [life EXCEPT ![MarketOf(o)] = "paused"]
    /\ worker' = Idle
    /\ UNCHANGED <<lane, account_vars, window, tracked, closed, history>>

(* An event of the user channel, read as an order result or as the news of a  *)
(* position. A matched BUY that is not yet projected is counted here.         *)
HandleEvent ==
    /\ worker = Idle
    /\ lane # <<>>
    /\ lane' = Tail(lane)
    /\ LET e == Head(lane)
           m == MarketOf(e.order)
       IN  IF e.kind = "position"
           THEN /\ life' = [life EXCEPT ![m] = IF m \in account.held THEN "position_open" ELSE @]
                /\ UNCHANGED <<worker, account>>
           ELSE /\ life' = [life EXCEPT ![m] = AfterBuy(e.kind, @)]
                /\ account' = IF e.kind = "full_fill"
                              THEN [account EXCEPT !.held = @ \cup {m}] ELSE account
                /\ worker' = IF e.kind = "live"
                             THEN [doing |-> "cancelling", orders |-> {e.order}, heard |-> "live"]
                             ELSE Idle
    /\ UNCHANGED <<venue_vars, poll, window, tracked, closed, history>>

----------------------------------------------------------------------------
(* The exchange *)

Become(o, fate) ==
    /\ venue' = [venue EXCEPT ![o] = fate]
    /\ behind' = behind \cup {o}
    /\ UNCHANGED <<life, worker, lane, account_vars, window, tracked, closed, history>>

Match(o) ==
    /\ venue[o] \in {"sent", "resting"}
    /\ Cardinality(Executed(venue)) < Cash
    /\ Become(o, "matched")

Rest(o) == venue[o] = "sent" /\ Become(o, "resting")
Close(o) == venue[o] \in {"sent", "resting"} /\ Become(o, "closed")
FailTrade(o) == o \in Doomed /\ venue[o] = "matched" /\ Become(o, "failed")

(* The user channel reports the last state of an order, or loses it. A trade  *)
(* counts its shares whether it was matched or failed.                        *)
Reports(o) ==
    LET event(kind) == [order |-> o, kind |-> kind]
    IN  CASE venue[o] = "resting" -> <<event("live")>>
          [] venue[o] = "matched" -> <<event("full_fill")>>
          [] venue[o] = "failed" -> <<event("failed"), event("position")>>
          [] OTHER -> <<>>

Frame(o) ==
    /\ o \in behind
    /\ Len(lane) + Len(Reports(o)) <= LaneLimit
    /\ behind' = behind \ {o}
    /\ account' = [account EXCEPT
                      !.open = IF venue[o] \in {"resting", "matched"} THEN @ \cup {o} ELSE @ \ {o},
                      !.held = IF venue[o] \in {"matched", "failed"} THEN @ \cup {MarketOf(o)} ELSE @]
    /\ lane' = lane \o Reports(o)
    /\ UNCHANGED <<life, worker, venue, poll, window, tracked, closed, history>>

LoseFrame(o) ==
    /\ o \in behind
    /\ behind' = behind \ {o}
    /\ UNCHANGED <<life, worker, lane, venue, account_vars, window, tracked, closed, history>>

(* The REST poll writes what the exchange had when it asked. *)
View == [held |-> {MarketOf(o) : o \in Executed(venue)}, open |-> Resting(venue),
         balance |-> Cash - Cardinality(Executed(venue))]

StartPoll ==
    /\ poll = {}
    /\ poll' = {View}
    /\ UNCHANGED <<life, worker, lane, venue_vars, account, window, tracked, closed, history>>

ApplyPoll ==
    /\ poll # {}
    /\ account' \in poll
    /\ poll' = {}
    /\ UNCHANGED <<life, worker, lane, venue_vars, window, tracked, closed, history>>

----------------------------------------------------------------------------
(* The operator and the registry *)

Shut(g) ==
    /\ g \notin closed
    /\ closed' = closed \cup {g}
    /\ UNCHANGED <<life, worker, lane, venue_vars, account_vars, window, tracked, history>>

Open(g) ==
    /\ g \in closed
    /\ closed' = closed \ {g}
    /\ late' = [m \in Markets |-> IF IsShut(m)' THEN late[m] ELSE 0]
    /\ UNCHANGED <<life, worker, lane, venue_vars, account_vars, window, tracked, told, forgot>>

(* remove_market of a market without exposure, with the worker's evict_market. *)
Evict(m) ==
    /\ m \in tracked
    /\ ~HasExposure(m)
    /\ tracked' = tracked \ {m}
    /\ life' = [life EXCEPT ![m] = "none"]
    /\ forgot' = IF \E o \in Orders : MarketOf(o) = m /\ venue[o] # "unsent"
                 THEN forgot \cup {m} ELSE forgot
    /\ UNCHANGED <<worker, lane, venue_vars, account_vars, window, closed, told, late>>

Discover(m) ==
    /\ m \notin tracked
    /\ tracked' = tracked \cup {m}
    /\ UNCHANGED <<life, worker, lane, venue_vars, account_vars, window, closed, history>>

----------------------------------------------------------------------------
Init ==
    /\ life = [m \in Markets |-> "none"]
    /\ worker = Idle
    /\ lane = <<>>
    /\ venue = [o \in Orders |-> "unsent"]
    /\ behind = {}
    /\ account = [held |-> {}, open |-> {}, balance |-> Cash]
    /\ poll = {}
    /\ window = {}
    /\ tracked = Markets
    /\ closed = {}
    /\ told = [o \in Orders |-> "nothing"]
    /\ forgot = {}
    /\ late = [m \in Markets |-> 0]

Decide == EndSkip \/ Answer \/ HandleResult \/ CancelResting \/ HandleEvent

Exchange == \E o \in Orders : Post(o) \/ Match(o) \/ Rest(o) \/ Close(o) \/ FailTrade(o)

Next ==
    \/ \E m \in Markets : TickSkip(m) \/ TickEnter(m)
    \/ Decide
    \/ Exchange
    \/ \E o \in Orders : Frame(o) \/ LoseFrame(o)
    \/ StartPoll \/ ApplyPoll
    \/ \E m \in Markets : WindowCloses(m) \/ Evict(m) \/ Discover(m)
    \/ \E g \in Gates : Shut(g) \/ Open(g)

Spec == Init /\ [][Next]_vars

----------------------------------------------------------------------------
(* Properties *)

Lifecycles == {"none", "watching", "ready", "submitting", "rejected", "position_open", "paused"}
Accounts == [held : SUBSET Markets, open : SUBSET Orders, balance : Int]

TypeOK ==
    /\ life \in [Markets -> Lifecycles]
    /\ worker \in [doing : {"nothing", "skipping", "sending", "handling", "cancelling"},
                   orders : SUBSET Orders,
                   heard : {"nothing", "full_fill", "no_fill", "live", "rejected", "failed", "unknown"}]
    /\ lane \in Seq([order : Orders, kind : {"live", "full_fill", "failed", "position"}])
    /\ venue \in [Orders -> {"unsent", "handed", "sent", "resting", "matched", "failed", "closed"}]
    /\ behind \subseteq Orders
    /\ account \in Accounts
    /\ poll \subseteq Accounts
    /\ window \subseteq Markets
    /\ tracked \subseteq Markets
    /\ closed \subseteq Gates
    /\ told \in [Orders -> {"nothing", "sure", "rests", "doubt"}]
    /\ forgot \subseteq Markets
    /\ late \in [Markets -> 0..2]

(* A market whose orders were all answered for truly, and that stayed in the  *)
(* registry, is bought once: neither a poll that wipes the new position nor a *)
(* lost frame makes the worker buy again what it was told it has              *)
(* (_state_allows_entry_attempt beside the snapshot of the decider). Of an    *)
(* order that is there and was reported as rejected nothing of the kind holds.*)
Doubtful(m) ==
    \/ m \in forgot
    \/ \E o \in Orders : MarketOf(o) = m /\ (told[o] = "doubt" \/ venue[o] = "failed")

BoughtOnce ==
    \A m \in Markets :
        Doubtful(m) \/ Cardinality({o \in Executed(venue) : MarketOf(o) = m}) <= 1

(* Once the operator has shut a gate, only orders that were with the executor  *)
(* may still leave: the one at hand, and those whose answer was given up while *)
(* their call was on its way. No decision after that overlooks the gate        *)
(* (process_event takes its snapshot anew for every event).                    *)
GateTakesHold ==
    \A m \in Markets :
        late[m] <= 1 + Cardinality({o \in Orders : MarketOf(o) = m /\ told[o] = "doubt"})

(* Beside a BUY that rests and that the worker was told rests, it sends no     *)
(* other for the market, whether or not its cancellation went through          *)
(* ("买入侧不得保留长期 resting BUY", _pause_market).                            *)
NoBuyBesideResting ==
    [][\A o \in Orders :
          venue[o] = "unsent" /\ venue'[o] = "handed" /\ ~Doubtful(MarketOf(o)) =>
              ~\E p \in Orders : MarketOf(p) = MarketOf(o) /\ venue[p] = "resting" /\ told[p] = "rests"]_vars

=============================================================================
