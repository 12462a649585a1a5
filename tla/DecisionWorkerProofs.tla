------------------------ MODULE DecisionWorkerProofs ------------------------
(***************************************************************************)
(* Theorems about the decision worker, for any markets, attempts, gates    *)
(* and amounts: the types, that a market is bought once, that no BUY is    *)
(* sent beside one that rests, and that a gate that is shut takes hold.    *)
(***************************************************************************)
EXTENDS DecisionWorker, SequenceTheorems, FiniteSetTheorems, WellFoundedInduction, TLAPS

----------------------------------------------------------------------------
(* Orders. *)

OrdersOf(m) == {o \in Orders : MarketOf(o) = m}

LEMMA FiniteOrders ==
    ASSUME NEW S \in SUBSET Orders
    PROVE  IsFiniteSet(S) /\ Cardinality(S) \in Nat
<1>1. IsFiniteSet(1 .. Attempts)
    BY CountsAssumption, FS_Interval
<1>2. IsFiniteSet(Orders)
    BY <1>1, CountsAssumption, FS_Product DEF Orders
<1> QED BY <1>2, FS_Subset, FS_CardinalityType

LEMMA OrderMarket ==
    ASSUME NEW o \in Orders
    PROVE  MarketOf(o) \in Markets
BY DEF Orders, MarketOf

LEMMA LeastOfNaturals ==
    ASSUME NEW S \in SUBSET Nat, S # {}
    PROVE  \E n \in S : \A k \in S : n <= k
<1>1. PICK less : IsWellFoundedOn(less, Nat) /\ \A x, y \in Nat : x < y => <<x, y>> \in less
    <2> DEFINE R == OpToRel(<, Nat)
    <2>1. IsWellFoundedOn(R, Nat)
        BY NatLessThanWellFounded
    <2>2. \A x, y \in Nat : x < y => <<x, y>> \in R
        BY DEF OpToRel
    <2> HIDE DEF R
    <2> QED BY <2>1, <2>2, Zenon
<1>2. PICK n \in S : \A k \in S : ~ (<<k, n>> \in less)
    <2>1. S \subseteq Nat /\ S # {} /\ IsWellFoundedOn(less, Nat)
        BY <1>1
    <2> QED BY <2>1, WFMin, Zenon
<1>3. \A k \in S : k \in Nat /\ n \in Nat /\ ~ (k < n)
    BY <1>1, <1>2
<1> QED BY <1>3

\* The next order of a market is one that was not sent.
LEMMA NextOrderUnsent ==
    ASSUME NEW m \in Markets, Unsent(m) # {}
    PROVE  /\ NextOrder(m) \in Orders /\ MarketOf(NextOrder(m)) = m
           /\ venue[NextOrder(m)] = "unsent"
<1> DEFINE numbers == {o[2] : o \in Unsent(m)}
<1>1. \A o \in Unsent(m) : o \in Orders /\ MarketOf(o) = m /\ venue[o] = "unsent" /\ o[2] \in Nat
    BY CountsAssumption DEF Unsent, Orders
<1>2. numbers \in SUBSET Nat /\ numbers # {}
    <2>1. PICK o \in Unsent(m) : TRUE
        OBVIOUS
    <2>2. o[2] \in numbers
        OBVIOUS
    <2>3. numbers \in SUBSET Nat
        BY <1>1
    <2> HIDE DEF numbers
    <2> QED BY <2>2, <2>3
<1>3. PICK n \in numbers : \A k \in numbers : n <= k
    <2> HIDE DEF numbers
    <2> QED BY <1>2, LeastOfNaturals
<1>4. PICK o \in Unsent(m) : o[2] = n
    BY <1>3
<1>5. \A p \in Unsent(m) : o[2] <= p[2]
    BY <1>3, <1>4
<1>6. NextOrder(m) \in Unsent(m)
    BY <1>5 DEF NextOrder
<1> QED BY <1>1, <1>6

\* What the user channel reports of an order, and when it says that it failed.
Events == [order : Orders, kind : {"live", "full_fill", "failed", "position"}]

LEMMA ReportsType ==
    ASSUME NEW o \in Orders
    PROVE  /\ Reports(o) \in Seq(Events)
           /\ \A i \in 1 .. Len(Reports(o)) :
                Reports(o)[i].order = o /\ (Reports(o)[i].kind = "failed" => venue[o] = "failed")
<1> DEFINE event(kind) == [order |-> o, kind |-> kind]
<1>1. \A kind \in {"live", "full_fill", "failed", "position"} :
        event(kind) \in Events /\ event(kind).order = o /\ event(kind).kind = kind
    BY DEF Events
<1>2. CASE venue[o] = "resting"
    <2>1. Reports(o) = <<event("live")>>
        BY <1>2 DEF Reports
    <2> HIDE DEF event
    <2> QED BY <1>1, <2>1
<1>3. CASE venue[o] = "matched"
    <2>1. Reports(o) = <<event("full_fill")>>
        BY <1>3 DEF Reports
    <2> HIDE DEF event
    <2> QED BY <1>1, <2>1
<1>4. CASE venue[o] = "failed"
    <2>1. Reports(o) = <<event("failed"), event("position")>>
        BY <1>4 DEF Reports
    <2> HIDE DEF event
    <2> QED BY <1>1, <1>4, <2>1
<1>5. CASE venue[o] \notin {"resting", "matched", "failed"}
    <2>1. Reports(o) = <<>>
        BY <1>5 DEF Reports
    <2> QED BY <2>1
<1> QED BY <1>2, <1>3, <1>4, <1>5

LEMMA ViewType == View \in Accounts
<1>1. Executed(venue) \in SUBSET Orders /\ Resting(venue) \in SUBSET Orders
    BY DEF Executed, Resting
<1>2. Cash - Cardinality(Executed(venue)) \in Int
    BY <1>1, FiniteOrders, CountsAssumption
<1>3. {MarketOf(o) : o \in Executed(venue)} \subseteq Markets
    BY <1>1, OrderMarket
<1> QED BY <1>1, <1>2, <1>3 DEF View, Accounts

----------------------------------------------------------------------------
(* The worker. *)

Doings == {"skipping", "sending", "handling", "cancelling"}

\* Who is at work has one order, and who is not has none.
AtHand ==
    /\ worker.doing \in Doings => \E o \in Orders : worker.orders = {o}
    /\ worker.doing = "nothing" => worker = Idle

Typed == TypeOK /\ AtHand

LEMMA AtHandOne ==
    ASSUME NEW o, worker.orders = {o}
    PROVE  OrderAtHand = o
BY DEF OrderAtHand

LEMMA OrderAtHandType ==
    ASSUME Typed, worker.doing \in Doings
    PROVE  /\ OrderAtHand \in Orders /\ worker.orders = {OrderAtHand}
           /\ MarketOf(OrderAtHand) \in Markets
<1>1. PICK o \in Orders : worker.orders = {o}
    BY DEF Typed, AtHand
<1> QED BY <1>1, AtHandOne, OrderMarket

Worker ==
    [doing : {"nothing"} \cup Doings, orders : SUBSET Orders,
     heard : {"nothing", "full_fill", "no_fill", "live", "rejected", "failed", "unknown"}]

LEMMA AfterBuyType ==
    ASSUME NEW status, NEW state \in Lifecycles
    PROVE  AfterBuy(status, state) \in Lifecycles
BY DEF AfterBuy, Lifecycles

LEMMA AnswersType ==
    ASSUME NEW o
    PROVE  Answers(o) \subseteq {"full_fill", "no_fill", "live", "rejected", "failed", "unknown"}
BY DEF Answers

----------------------------------------------------------------------------
(* Types. *)

LEMMA SkipTypes ==
    ASSUME Typed, NEW m \in Markets, TickSkip(m)
    PROVE  Typed'
<1>1. /\ worker' = [doing |-> "skipping", orders |-> {<<m, 1>>}, heard |-> "nothing"]
      /\ life' = [life EXCEPT ![m] = IF @ = "none" THEN "watching" ELSE @]
      /\ UNCHANGED <<lane, venue_vars, account_vars, window, tracked, closed, history>>
    BY DEF TickSkip
<1>2. <<m, 1>> \in Orders
    BY CountsAssumption DEF Orders
<1>3. life' \in [Markets -> Lifecycles]
    BY <1>1 DEF Typed, TypeOK, Lifecycles
<1> QED BY <1>1, <1>2, <1>3 DEF Typed, TypeOK, AtHand, Doings, Worker, venue_vars, account_vars, history

LEMMA EnterTypes ==
    ASSUME Typed, NEW m \in Markets, TickEnter(m)
    PROVE  Typed'
<1>1. /\ life' = [life EXCEPT ![m] = "submitting"]
      /\ UNCHANGED <<lane, behind, account_vars, window, tracked, closed, history>>
    BY DEF TickEnter
<1>2. life' \in [Markets -> Lifecycles]
    BY <1>1 DEF Typed, TypeOK, Lifecycles
<1>3. CASE worker' = [doing |-> "handling", orders |-> {<<m, 1>>}, heard |-> "rejected"] /\ UNCHANGED venue
    <2>1. <<m, 1>> \in Orders
        BY CountsAssumption DEF Orders
    <2> QED BY <1>1, <1>2, <1>3, <2>1 DEF Typed, TypeOK, AtHand, Doings, account_vars, history
<1>4. CASE /\ Unsent(m) # {}
           /\ worker' = [doing |-> "sending", orders |-> {NextOrder(m)}, heard |-> "nothing"]
           /\ venue' = [venue EXCEPT ![NextOrder(m)] = "handed"]
    <2>1. PICK o \in Orders : o = NextOrder(m)
        BY <1>4, NextOrderUnsent
    <2>2. venue' = [venue EXCEPT ![o] = "handed"]
        BY <1>4, <2>1
    <2>3. worker' = [doing |-> "sending", orders |-> {o}, heard |-> "nothing"]
        BY <1>4, <2>1
    <2> QED BY <1>1, <1>2, <2>2, <2>3 DEF Typed, TypeOK, AtHand, Doings, account_vars, history
<1> QED BY <1>3, <1>4 DEF TickEnter

LEMMA WorkerTypes ==
    ASSUME Typed, EndSkip \/ Answer \/ HandleResult \/ CancelResting
    PROVE  Typed'
<1> DEFINE o == OrderAtHand
           m == MarketOf(OrderAtHand)
<1>1. /\ worker.doing \in Doings /\ o \in Orders /\ m \in Markets /\ worker.orders = {o}
    <2>1. worker.doing \in Doings
        BY DEF EndSkip, Answer, HandleResult, CancelResting, Doings
    <2> QED BY <2>1, OrderAtHandType
<1> HIDE DEF o, m
<1>2. TypeOK /\ AtHand
    BY DEF Typed
<1>3. CASE EndSkip
    <2>1. /\ life' = [life EXCEPT ![m] = "watching"] /\ worker' = Idle
          /\ UNCHANGED <<lane, venue_vars, account_vars, window, tracked, closed, history>>
        BY <1>3 DEF EndSkip, m
    <2> QED BY <1>1, <1>2, <2>1
            DEF Typed, TypeOK, AtHand, Doings, Idle, Lifecycles, venue_vars, account_vars, history
<1>4. CASE Answer
    <2>1. PICK status \in Answers(o) :
            /\ worker' = [worker EXCEPT !.doing = "handling", !.heard = status]
            /\ told' = [told EXCEPT ![o] =
                            CASE LeavesDoubt(o, status) -> "doubt"
                              [] status = "live" -> "rests"
                              [] OTHER -> "sure"]
            /\ window' = IF status = "unknown" THEN window \cup {m} ELSE window
        BY <1>4, Zenon DEF Answer, o, m
    <2>2. UNCHANGED <<life, lane, venue_vars, account_vars, tracked, closed, forgot, late>>
        BY <1>4 DEF Answer
    <2>3. status \in {"full_fill", "no_fill", "live", "rejected", "failed", "unknown"}
        BY AnswersType
    <2>4. worker' \in Worker /\ worker'.doing = "handling" /\ worker'.orders = {o}
        BY <1>1, <1>2, <2>1, <2>3 DEF TypeOK, Worker, Doings
    <2>5. PICK how \in {"sure", "rests", "doubt"} : told' = [told EXCEPT ![o] = how]
        <3>1. CASE LeavesDoubt(o, status)
            BY <2>1, <3>1 DEF LeavesDoubt
        <3>2. CASE ~ LeavesDoubt(o, status) /\ status = "live"
            BY <2>1, <3>2
        <3>3. CASE ~ LeavesDoubt(o, status) /\ status # "live"
            BY <2>1, <3>3
        <3> QED BY <3>1, <3>2, <3>3
    <2>6. told' \in [Orders -> {"nothing", "sure", "rests", "doubt"}] /\ window' \subseteq Markets
        BY <1>1, <1>2, <2>1, <2>5 DEF TypeOK
    <2> QED BY <1>1, <1>2, <2>2, <2>4, <2>6 DEF Typed, TypeOK, AtHand, Doings, Worker, venue_vars, account_vars
<1>5. CASE HandleResult
    <2>1. /\ life' = [life EXCEPT ![m] = AfterBuy(worker.heard, life[m])]
          /\ account' = IF worker.heard = "full_fill"
                         THEN [account EXCEPT !.held = account.held \cup {m}] ELSE account
          /\ worker' = IF worker.heard = "live" THEN [worker EXCEPT !.doing = "cancelling"] ELSE Idle
          /\ UNCHANGED <<lane, venue_vars, poll, window, tracked, closed, history>>
        BY <1>5 DEF HandleResult, m
    <2>2. life' \in [Markets -> Lifecycles]
        BY <1>1, <1>2, <2>1, AfterBuyType DEF TypeOK
    <2>3. account' \in Accounts
        BY <1>1, <1>2, <2>1 DEF TypeOK, Accounts
    <2>4. worker' \in Worker /\ (worker' = Idle \/ (worker'.doing = "cancelling" /\ worker'.orders = {o}))
        BY <1>1, <1>2, <2>1 DEF TypeOK, Worker, Doings, Idle
    <2>5. AtHand'
        BY <1>1, <2>4 DEF AtHand, Doings, Idle
    <2>6. TypeOK'
        BY <1>2, <2>1, <2>2, <2>3, <2>4 DEF TypeOK, venue_vars, history, Worker, Doings
    <2> QED BY <2>5, <2>6 DEF Typed
<1>6. CASE CancelResting
    <2>1. /\ \/ /\ venue' = [venue EXCEPT ![o] = "closed"]
               /\ behind' = behind \cup {o}
            \/ UNCHANGED venue_vars
          /\ life' = [life EXCEPT ![m] = "paused"]
          /\ worker' = Idle
          /\ UNCHANGED <<lane, account_vars, window, tracked, closed, history>>
        BY <1>6 DEF CancelResting, m, o
    <2>2. /\ venue' \in [Orders -> {"unsent", "handed", "sent", "resting", "matched", "failed", "closed"}]
          /\ behind' \subseteq Orders
        BY <1>1, <1>2, <2>1 DEF TypeOK, venue_vars
    <2> QED BY <1>1, <1>2, <2>1, <2>2 DEF Typed, TypeOK, AtHand, Doings, Idle, Lifecycles, account_vars, history
<1> QED BY <1>3, <1>4, <1>5, <1>6

LEMMA HandleEventTypes ==
    ASSUME Typed, HandleEvent
    PROVE  Typed'
<1> DEFINE e == Head(lane)
           m == MarketOf(e.order)
<1>1. /\ TypeOK /\ AtHand /\ lane \in Seq(Events) /\ lane # <<>>
    BY DEF Typed, TypeOK, HandleEvent, Events
<1>2. Tail(lane) \in Seq(Events) /\ e \in Events
    BY <1>1, HeadTailProperties
<1>3. e.order \in Orders /\ m \in Markets
    BY <1>2, OrderMarket DEF Events
<1>4. /\ lane' = Tail(lane) /\ worker = Idle
      /\ UNCHANGED <<venue_vars, poll, window, tracked, closed, history>>
    BY DEF HandleEvent
<1>5. /\ life' \in [Markets -> Lifecycles] /\ account' \in Accounts
      /\ worker' = Idle \/ worker' = [doing |-> "cancelling", orders |-> {e.order}, heard |-> "live"]
    <2>1. CASE e.kind = "position"
        <3>1. /\ life' = [life EXCEPT ![m] = IF m \in account.held THEN "position_open" ELSE life[m]]
              /\ UNCHANGED <<worker, account>>
            BY <2>1 DEF HandleEvent
        <3> HIDE DEF m
        <3> QED BY <1>1, <1>3, <1>4, <3>1 DEF TypeOK, Lifecycles
    <2>2. CASE e.kind # "position"
        <3>1. /\ life' = [life EXCEPT ![m] = AfterBuy(e.kind, life[m])]
              /\ account' = IF e.kind = "full_fill"
                            THEN [account EXCEPT !.held = account.held \cup {m}] ELSE account
              /\ worker' = IF e.kind = "live"
                           THEN [doing |-> "cancelling", orders |-> {e.order}, heard |-> "live"]
                           ELSE Idle
            BY <2>2 DEF HandleEvent
        <3> HIDE DEF m, e
        <3>2. life' \in [Markets -> Lifecycles]
            BY <1>1, <1>3, <3>1, AfterBuyType DEF TypeOK
        <3>3. account' \in Accounts
            BY <1>1, <1>3, <3>1 DEF TypeOK, Accounts
        <3> QED BY <3>1, <3>2, <3>3
    <2> QED BY <2>1, <2>2
<1> HIDE DEF e
<1>6. AtHand'
    BY <1>3, <1>5 DEF AtHand, Doings, Idle
<1>7. worker' \in Worker
    BY <1>3, <1>5 DEF Worker, Doings, Idle
<1> QED BY <1>1, <1>2, <1>4, <1>5, <1>6, <1>7 DEF Typed, TypeOK, venue_vars, history, Worker, Doings, Events

Fates == {"unsent", "handed", "sent", "resting", "matched", "failed", "closed"}

LEMMA CancelOrExchangeTypes ==
    ASSUME TypeOK, NEW o \in Orders, NEW fate \in Fates,
           venue' = [venue EXCEPT ![o] = fate]
    PROVE  venue' \in [Orders -> Fates]
BY DEF TypeOK, Fates

\* What the exchange does changes the fate of one order that has left.
LEMMA ExchangeEffect ==
    ASSUME NEW o \in Orders, Post(o) \/ Match(o) \/ Rest(o) \/ Close(o) \/ FailTrade(o)
    PROVE  /\ venue[o] \in {"handed", "sent", "resting", "matched"}
           /\ \E fate \in {"sent", "resting", "matched", "failed", "closed"} :
                 venue' = [venue EXCEPT ![o] = fate]
           /\ UNCHANGED <<life, worker, lane, account_vars, window, tracked, closed, told, forgot>>
           /\ behind' = behind \/ behind' = behind \cup {o}
           /\ \/ late' = late
              \/ Post(o)
<1>1. CASE Post(o)
    BY <1>1 DEF Post
<1>2. CASE Match(o) \/ Rest(o) \/ Close(o) \/ FailTrade(o)
    BY <1>2 DEF Match, Rest, Close, FailTrade, Become, history
<1> QED BY <1>1, <1>2

LEMMA ExchangeTypes ==
    ASSUME Typed, NEW o \in Orders, Post(o) \/ Match(o) \/ Rest(o) \/ Close(o) \/ FailTrade(o)
    PROVE  Typed'
<1>1. TypeOK /\ AtHand
    BY DEF Typed
<1>2. /\ UNCHANGED <<life, worker, lane, account_vars, window, tracked, closed, told, forgot>>
      /\ behind' \subseteq Orders
    BY <1>1, ExchangeEffect DEF TypeOK
<1>3. venue' \in [Orders -> Fates]
    <2>1. PICK fate \in {"sent", "resting", "matched", "failed", "closed"} :
            venue' = [venue EXCEPT ![o] = fate]
        BY ExchangeEffect
    <2> QED BY <1>1, <2>1, CancelOrExchangeTypes DEF Fates
<1>4. late' \in [Markets -> 0 .. 2]
    <2>1. CASE late' = late
        BY <1>1, <2>1 DEF TypeOK
    <2>2. CASE Post(o)
        <3> DEFINE m == MarketOf(o)
        <3>1. /\ late' = [late EXCEPT ![m] = IF IsShut(m) THEN Min2(late[m] + 1, 2) ELSE late[m]]
              /\ m \in Markets /\ late \in [Markets -> 0 .. 2]
            BY <1>1, <2>2, OrderMarket DEF Post, TypeOK
        <3> HIDE DEF m
        <3>2. late[m] \in 0 .. 2 /\ Min2(late[m] + 1, 2) \in 0 .. 2
            BY <3>1 DEF Min2
        <3> QED BY <3>1, <3>2
    <2> QED BY <2>1, <2>2, ExchangeEffect
<1> QED BY <1>1, <1>2, <1>3, <1>4 DEF Typed, TypeOK, AtHand, Idle, Fates, account_vars

\* The steps beside the worker and the exchange.
Aside ==
    \/ \E o \in Orders : Frame(o) \/ LoseFrame(o)
    \/ StartPoll \/ ApplyPoll
    \/ \E m \in Markets : WindowCloses(m) \/ Discover(m)
    \/ \E g \in Gates : Shut(g) \/ Open(g)
    \/ UNCHANGED vars

LEMMA AsideEffect ==
    ASSUME Aside
    PROVE  UNCHANGED <<life, worker, venue, told, forgot>>
BY DEF Aside, Frame, LoseFrame, StartPoll, ApplyPoll, WindowCloses, Discover, Shut, Open,
       vars, venue_vars, history

LEMMA FrameTypes ==
    ASSUME Typed, NEW o \in Orders, Frame(o)
    PROVE  Typed'
<1>1. TypeOK /\ AtHand /\ MarketOf(o) \in Markets
    BY OrderMarket DEF Typed
<1>2. lane' \in Seq(Events)
    <2>1. lane \in Seq(Events) /\ Reports(o) \in Seq(Events) /\ lane' = lane \o Reports(o)
        BY <1>1, ReportsType DEF Frame, TypeOK, Events
    <2> QED BY <2>1, ConcatProperties
<1>3. account' \in Accounts
    <2>1. /\ account.held \subseteq Markets /\ account.open \subseteq Orders /\ account.balance \in Int
          /\ account = [held |-> account.held, open |-> account.open, balance |-> account.balance]
        BY <1>1 DEF TypeOK, Accounts
    <2>2. PICK held \in SUBSET Markets, open \in SUBSET Orders :
            account' = [account EXCEPT !.open = open, !.held = held]
        <3>1. (IF venue[o] \in {"resting", "matched"} THEN account.open \cup {o} ELSE account.open \ {o})
                \in SUBSET Orders
            BY <2>1
        <3>2. (IF venue[o] \in {"matched", "failed"} THEN account.held \cup {MarketOf(o)} ELSE account.held)
                \in SUBSET Markets
            BY <1>1, <2>1
        <3> QED BY <3>1, <3>2, Zenon DEF Frame
    <2> QED BY <1>1, <2>1, <2>2 DEF TypeOK, Accounts
<1>4. behind' \subseteq Orders /\ UNCHANGED <<life, worker, venue, poll, window, tracked, closed, history>>
    BY <1>1 DEF Frame, TypeOK
<1> QED BY <1>1, <1>2, <1>3, <1>4 DEF Typed, TypeOK, AtHand, Idle, Events, history

LEMMA AsideTypes ==
    ASSUME Typed, Aside
    PROVE  Typed'
<1>1. TypeOK /\ AtHand
    BY DEF Typed
<1>2. CASE \E o \in Orders : Frame(o)
    BY <1>2, FrameTypes
<1>3. CASE \E o \in Orders : LoseFrame(o)
    BY <1>1, <1>3 DEF LoseFrame, Typed, TypeOK, AtHand, Idle, account_vars, history
<1>4. CASE StartPoll
    BY <1>1, <1>4, ViewType DEF StartPoll, Typed, TypeOK, AtHand, Idle, venue_vars, history
<1>5. CASE ApplyPoll
    BY <1>1, <1>5 DEF ApplyPoll, Typed, TypeOK, AtHand, Idle, venue_vars, history
<1>6. CASE \E m \in Markets : WindowCloses(m) \/ Discover(m)
    BY <1>1, <1>6 DEF WindowCloses, Discover, Typed, TypeOK, AtHand, Idle, venue_vars, account_vars, history
<1>7. CASE \E g \in Gates : Shut(g)
    BY <1>1, <1>7 DEF Shut, Typed, TypeOK, AtHand, Idle, venue_vars, account_vars, history
<1>8. CASE \E g \in Gates : Open(g)
    <2>1. /\ closed' \subseteq Gates
          /\ late' = [m \in Markets |-> IF IsShut(m)' THEN late[m] ELSE 0]
          /\ UNCHANGED <<life, worker, lane, venue_vars, account_vars, window, tracked, told, forgot>>
        BY <1>1, <1>8 DEF Open, TypeOK
    <2>2. late' \in [Markets -> 0 .. 2]
        BY <1>1, <2>1 DEF TypeOK
    <2> QED BY <1>1, <2>1, <2>2 DEF Typed, TypeOK, AtHand, Idle, venue_vars, account_vars
<1>9. CASE UNCHANGED vars
    BY <1>1, <1>9 DEF vars, Typed, TypeOK, AtHand, Idle
<1> QED BY <1>2, <1>3, <1>4, <1>5, <1>6, <1>7, <1>8, <1>9 DEF Aside

LEMMA EvictTypes ==
    ASSUME Typed, NEW m \in Markets, Evict(m)
    PROVE  Typed'
<1>1. TypeOK /\ AtHand
    BY DEF Typed
<1>2. life' \in [Markets -> Lifecycles] /\ tracked' \subseteq Markets /\ forgot' \subseteq Markets
    BY <1>1 DEF Evict, TypeOK, Lifecycles
<1>3. UNCHANGED <<worker, lane, venue_vars, account_vars, window, closed, told, late>>
    BY DEF Evict
<1> QED BY <1>1, <1>2, <1>3 DEF Typed, TypeOK, AtHand, Idle, venue_vars, account_vars

\* A step is the worker's, the exchange's, the pruning of a market or aside.
LEMMA Steps ==
    ASSUME [Next]_vars
    PROVE  \/ \E m \in Markets : TickSkip(m) \/ TickEnter(m) \/ Evict(m)
           \/ EndSkip \/ Answer \/ HandleResult \/ CancelResting \/ HandleEvent
           \/ \E o \in Orders : Post(o) \/ Match(o) \/ Rest(o) \/ Close(o) \/ FailTrade(o)
           \/ Aside
BY Zenon DEF Next, Decide, Exchange, Aside

LEMMA InitTypes == Init => Typed
<1> SUFFICES ASSUME Init
             PROVE  Typed
    OBVIOUS
<1>1. lane \in Seq(Events)
    BY DEF Init
<1>2. account \in Accounts
    BY CountsAssumption DEF Init, Accounts
<1>3. AtHand
    BY DEF Init, AtHand, Doings, Idle
<1> QED BY <1>1, <1>2, <1>3 DEF Init, Typed, TypeOK, Idle, Lifecycles, Events

----------------------------------------------------------------------------
(* What the worker knows of the orders it sent. *)

Sending(o) == worker.doing = "sending" /\ worker.orders = {o}
Bought(o) == worker.doing = "handling" /\ worker.orders = {o} /\ worker.heard \in {"full_fill", "live"}

Live(m) == {o \in OrdersOf(m) : venue[o] \in {"handed", "sent", "resting", "matched"}}
Doubts(m) == {o \in OrdersOf(m) : told[o] = "doubt"}
Stopped(m) == life[m] \in {"paused", "position_open"}

\* An order nobody answered for is the one at hand, or was given up in doubt.
Told ==
    \A o \in Orders :
        /\ venue[o] = "unsent" => told[o] = "nothing"
        /\ venue[o] = "handed" => told[o] = "doubt" \/ Sending(o)
        /\ Sending(o) => venue[o] # "unsent" /\ told[o] = "nothing"

\* The worker hears of a failure only after a trade failed.
LaneTrue == \A i \in 1 .. Len(lane) : lane[i].kind = "failed" => venue[lane[i].order] = "failed"

\* Of a market without doubts one order at most is alive, and then the market
\* is stopped or the worker is about to stop it.
OneLive(m) == \A o, p \in Live(m) : o = p
LiveIsKnown(m) == Live(m) # {} => Stopped(m) \/ \E o \in Live(m) : Sending(o) \/ Bought(o)
NothingElse(m) ==
    \A o \in OrdersOf(m) :
        worker.orders = {o} =>
            /\ worker.doing = "sending" => Live(m) \subseteq {o}
            /\ worker.doing = "skipping" => Live(m) = {}
            /\ worker.doing = "handling" /\ worker.heard \notin {"full_fill", "live"} => Live(m) = {}
Single(m) == OneLive(m) /\ LiveIsKnown(m) /\ NothingElse(m)
OnlyOne == \A m \in Markets : Doubtful(m) \/ Single(m)

\* Behind a shut gate only the order at hand and the doubtful ones may leave.
LateOnes(m) ==
    /\ late[m] >= 1 => IsShut(m)
    /\ late[m] >= 1 => Doubts(m) # {} \/ \A o \in OrdersOf(m) : venue[o] # "handed"
    /\ late[m] >= 2 => Doubts(m) # {}
LateKnown == \A m \in Markets : LateOnes(m)

IInv == Typed /\ Told /\ LaneTrue /\ OnlyOne /\ LateKnown

----------------------------------------------------------------------------
(* What a step may never do to the histories. *)

\* A doubt is never taken back and a failed trade stays failed.
Grows ==
    /\ forgot \subseteq forgot'
    /\ \A o \in Orders : told[o] = "doubt" => told'[o] = "doubt"
    /\ \A o \in Orders : venue[o] = "failed" => venue'[o] = "failed"

LEMMA DoubtsStay ==
    ASSUME Grows, NEW m \in Markets, Doubtful(m)
    PROVE  Doubtful(m)'
BY DEF Grows, Doubtful

\* A market the step of the worker is not about.
LEMMA Elsewhere ==
    ASSUME NEW m \in Markets, Single(m),
           \A o \in OrdersOf(m) : worker.orders # {o} /\ worker'.orders # {o},
           Live(m)' \subseteq Live(m), life'[m] = life[m]
    PROVE  Single(m)'
<1>1. OneLive(m)'
    BY DEF Single, OneLive
<1>2. LiveIsKnown(m)'
    BY DEF Single, LiveIsKnown, Sending, Bought, Live, Stopped
<1>3. NothingElse(m)'
    BY DEF NothingElse, OrdersOf
<1> QED BY <1>1, <1>2, <1>3 DEF Single

\* Orders that end, with the worker as it was.
LEMMA Ending ==
    ASSUME NEW m \in Markets, Single(m), UNCHANGED <<life, worker>>, Live(m)' \subseteq Live(m)
    PROVE  Single(m)'
<1>1. OneLive(m)'
    BY DEF Single, OneLive
<1>2. LiveIsKnown(m)'
    <2>1. CASE Live(m)' = {}
        BY <2>1 DEF LiveIsKnown
    <2>2. CASE Live(m)' # {}
        <3>1. PICK o \in Live(m) : o \in Live(m)'
            BY <2>2
        <3>2. Stopped(m) \/ \E p \in Live(m) : Sending(p) \/ Bought(p)
            BY <3>1 DEF Single, LiveIsKnown
        <3>3. Stopped(m) \/ Sending(o) \/ Bought(o)
            BY <3>1, <3>2 DEF Single, OneLive
        <3>4. Stopped(m)' \/ Sending(o)' \/ Bought(o)'
            BY <3>3 DEF Stopped, Sending, Bought
        <3> QED BY <3>1, <3>4 DEF LiveIsKnown
    <2> QED BY <2>1, <2>2
<1>3. NothingElse(m)'
    BY DEF Single, NothingElse, OrdersOf
<1> QED BY <1>1, <1>2, <1>3 DEF Single

\* The same orders in doubt and none newly handed over, behind the same gates.
LEMMA LateKept ==
    ASSUME LateKnown, UNCHANGED <<late, closed>>,
           \A o \in Orders : told[o] = "doubt" => told'[o] = "doubt",
           \A o \in Orders : venue'[o] = "handed" => venue[o] = "handed"
    PROVE  LateKnown'
<1> SUFFICES ASSUME NEW m \in Markets
             PROVE  LateOnes(m)'
    BY DEF LateKnown
<1>1. LateOnes(m)
    BY DEF LateKnown
<1>2. Doubts(m) \subseteq Doubts(m)'
    BY DEF Doubts, OrdersOf
<1>3. IsShut(m)' = IsShut(m)
    BY DEF IsShut
<1> QED BY <1>1, <1>2, <1>3 DEF LateOnes, OrdersOf

----------------------------------------------------------------------------
(* The steps aside. *)

LEMMA AsideKeeps ==
    ASSUME IInv, Aside
    PROVE  IInv'
<1>1. UNCHANGED <<life, worker, venue, told, forgot>>
    BY AsideEffect
<1>2. Typed'
    BY AsideTypes DEF IInv
<1>3. Told'
    BY <1>1 DEF IInv, Told, Sending
<1>4. LaneTrue'
    <2>1. CASE \E o \in Orders : Frame(o)
        <3>1. PICK o \in Orders : Frame(o)
            BY <2>1
        <3>2. /\ lane \in Seq(Events) /\ Reports(o) \in Seq(Events) /\ lane' = lane \o Reports(o)
            BY <3>1, ReportsType DEF IInv, Typed, TypeOK, Frame, Events
        <3> DEFINE r == Reports(o)
        <3>3. /\ r \in Seq(Events) /\ lane' = lane \o r
              /\ \A i \in 1 .. Len(r) : r[i].kind = "failed" => venue[r[i].order] = "failed"
            BY <3>2, ReportsType
        <3> HIDE DEF r
        <3>4. /\ Len(lane') = Len(lane) + Len(r)
              /\ \A i \in 1 .. Len(lane') :
                    lane'[i] = IF i <= Len(lane) THEN lane[i] ELSE r[i - Len(lane)]
            BY <3>2, <3>3, ConcatProperties
        <3>5. Len(lane) \in Nat /\ Len(r) \in Nat
            BY <3>2, <3>3, LenProperties
        <3>6. \A i \in 1 .. Len(lane') : i > Len(lane) => i - Len(lane) \in 1 .. Len(r)
            BY <3>4, <3>5
        <3>7. \A i \in 1 .. Len(lane') : i <= Len(lane) => i \in 1 .. Len(lane)
            BY <3>4, <3>5
        <3> SUFFICES ASSUME NEW i \in 1 .. Len(lane'), lane'[i].kind = "failed"
                     PROVE  venue'[lane'[i].order] = "failed"
            BY DEF LaneTrue
        <3>8. CASE i <= Len(lane)
            BY <1>1, <3>4, <3>7, <3>8 DEF IInv, LaneTrue
        <3>9. CASE ~ (i <= Len(lane))
            BY <1>1, <3>3, <3>4, <3>5, <3>6, <3>9
        <3> QED BY <3>8, <3>9
    <2>2. CASE UNCHANGED lane
        BY <1>1, <2>2 DEF IInv, LaneTrue
    <2> QED BY <2>1, <2>2 DEF Aside, LoseFrame, StartPoll, ApplyPoll, WindowCloses, Discover, Shut, Open, vars
<1>5. OnlyOne'
    <2>1. Grows
        BY <1>1 DEF Grows
    <2>2. \A m \in Markets : Live(m)' = Live(m)
        BY <1>1 DEF Live, OrdersOf
    <2> SUFFICES ASSUME NEW m \in Markets, ~ Doubtful(m)'
                 PROVE  Single(m)'
        BY DEF OnlyOne
    <2>3. Single(m)
        BY <2>1, DoubtsStay DEF IInv, OnlyOne
    <2> QED BY <1>1, <2>2, <2>3, Ending
<1>6. LateKnown'
    <2>1. CASE \E g \in Gates : Open(g)
        <3>1. late' = [m \in Markets |-> IF IsShut(m)' THEN late[m] ELSE 0]
            BY <2>1 DEF Open
        <3> SUFFICES ASSUME NEW m \in Markets
                     PROVE  LateOnes(m)'
            BY DEF LateKnown
        <3>2. CASE IsShut(m)'
            BY <1>1, <3>1, <3>2 DEF IInv, LateKnown, LateOnes, Doubts, OrdersOf
        <3>3. CASE ~ IsShut(m)'
            BY <3>1, <3>3 DEF LateOnes
        <3> QED BY <3>2, <3>3
    <2>2. CASE \E g \in Gates : Shut(g)
        <3>1. PICK g \in Gates : closed' = closed \cup {g} /\ UNCHANGED late
            BY <2>2 DEF Shut, history
        <3>2. \A m \in Markets : IsShut(m) => IsShut(m)'
            BY <3>1 DEF IsShut
        <3> QED BY <1>1, <3>1, <3>2 DEF IInv, LateKnown, LateOnes, Doubts, OrdersOf
    <2>3. CASE UNCHANGED <<late, closed>>
        <3>1. LateKnown
            BY DEF IInv
        <3> QED BY <1>1, <2>3, <3>1, LateKept
    <2> QED BY <2>1, <2>2, <2>3
            DEF Aside, Frame, LoseFrame, StartPoll, ApplyPoll, WindowCloses, Discover, vars, history
<1> QED BY <1>2, <1>3, <1>4, <1>5, <1>6 DEF IInv

----------------------------------------------------------------------------
(* The exchange. *)

LEMMA ExchangeKeeps ==
    ASSUME IInv, NEW o \in Orders, Post(o) \/ Match(o) \/ Rest(o) \/ Close(o) \/ FailTrade(o)
    PROVE  IInv'
<1>1. Typed'
    BY ExchangeTypes DEF IInv
<1>2. PICK fate \in {"sent", "resting", "matched", "failed", "closed"} :
        venue' = [venue EXCEPT ![o] = fate]
    BY ExchangeEffect
<1>3. /\ venue[o] \in {"handed", "sent", "resting", "matched"}
      /\ UNCHANGED <<life, worker, lane, account_vars, window, tracked, closed, told, forgot>>
    BY ExchangeEffect
<1>4. venue \in [Orders -> Fates]
    BY DEF IInv, Typed, TypeOK, Fates
<1>5. /\ venue'[o] = fate
      /\ \A p \in Orders : p # o => venue'[p] = venue[p]
    BY <1>2, <1>4
<1>6. Told'
    BY <1>3, <1>5 DEF IInv, Told, Sending
<1>7. Grows
    BY <1>3, <1>5 DEF Grows
<1>8. LaneTrue'
    <2> SUFFICES ASSUME NEW i \in 1 .. Len(lane), lane[i].kind = "failed"
                 PROVE  venue'[lane[i].order] = "failed"
        BY <1>3 DEF LaneTrue
    <2>1. lane[i] \in Events
        BY ElementOfSeq DEF IInv, Typed, TypeOK, Events
    <2>2. lane[i].order \in Orders
        BY <2>1 DEF Events
    <2>3. venue[lane[i].order] = "failed"
        BY DEF IInv, LaneTrue
    <2> QED BY <1>7, <2>2, <2>3 DEF Grows
<1>9. OnlyOne'
    <2> SUFFICES ASSUME NEW m \in Markets, ~ Doubtful(m)'
                 PROVE  Single(m)'
        BY DEF OnlyOne
    <2>1. Single(m)
        BY <1>7, DoubtsStay DEF IInv, OnlyOne
    <2>2. Live(m)' \subseteq Live(m)
        BY <1>3, <1>5 DEF Live, OrdersOf
    <2> QED BY <1>3, <2>1, <2>2, Ending
<1>10. LateKnown'
    <2>1. CASE late' = late
        <3>1. LateKnown /\ UNCHANGED <<late, closed>>
            BY <1>3, <2>1 DEF IInv
        <3>2. \A p \in Orders : venue'[p] = "handed" => venue[p] = "handed"
            BY <1>5
        <3> QED BY <1>3, <3>1, <3>2, LateKept
    <2>2. CASE Post(o)
        <3> DEFINE m == MarketOf(o)
        <3>1. /\ venue[o] = "handed"
              /\ late' = [late EXCEPT ![m] = IF IsShut(m) THEN Min2(late[m] + 1, 2) ELSE late[m]]
              /\ m \in Markets /\ late \in [Markets -> 0 .. 2]
            BY <2>2, OrderMarket DEF Post, IInv, Typed, TypeOK
        <3>2. o \in OrdersOf(m) /\ (told[o] = "doubt" \/ Sending(o))
            BY <3>1 DEF OrdersOf, IInv, Told
        <3>3. \A n \in Markets : IsShut(n)' = IsShut(n) /\ Doubts(n)' = Doubts(n)
            BY <1>3 DEF IsShut, Doubts, OrdersOf
        <3>4. Sending(o) => \A p \in OrdersOf(m) : venue'[p] = "handed" => told[p] = "doubt"
            BY <1>5, <2>2 DEF Post, IInv, Told, Sending, OrdersOf
        <3> HIDE DEF m
        <3> SUFFICES ASSUME NEW n \in Markets
                     PROVE  LateOnes(n)'
            BY DEF LateKnown
        <3>5. LateOnes(n)
            BY DEF IInv, LateKnown
        <3>6. CASE n # m
            <4>1. late'[n] = late[n]
                BY <3>1, <3>6
            <4>2. \A p \in OrdersOf(n) : venue'[p] = "handed" => venue[p] = "handed"
                BY <1>5 DEF OrdersOf
            <4> QED BY <3>3, <3>5, <4>1, <4>2 DEF LateOnes, OrdersOf
        <3>7. CASE n = m /\ ~ IsShut(m)
            <4>1. late'[n] = late[n]
                BY <3>1, <3>7
            <4>2. ~ (late'[n] >= 1)
                BY <3>5, <3>7, <4>1 DEF LateOnes
            <4>3. ~ (late'[n] >= 2)
                BY <3>1, <4>1, <4>2
            <4> QED BY <4>2, <4>3 DEF LateOnes
        <3>8. CASE n = m /\ IsShut(m)
            <4>1. late'[m] = Min2(late[m] + 1, 2) /\ late[m] \in 0 .. 2
                BY <3>1, <3>8
            <4>2. late'[m] >= 2 => late[m] >= 1
                BY <4>1 DEF Min2
            <4>3. Doubts(m) # {} \/ \A p \in OrdersOf(m) : venue'[p] # "handed"
                BY <3>2, <3>4 DEF Doubts
            <4>4. late'[m] >= 2 => Doubts(m) # {}
                BY <3>1, <3>2, <3>5, <3>8, <4>2 DEF LateOnes
            <4>5. OrdersOf(m)' = OrdersOf(m)
                BY DEF OrdersOf
            <4> QED BY <3>3, <3>8, <4>3, <4>4, <4>5 DEF LateOnes
        <3> QED BY <3>6, <3>7, <3>8
    <2> QED BY <2>1, <2>2, ExchangeEffect
<1> QED BY <1>1, <1>6, <1>8, <1>9, <1>10 DEF IInv

----------------------------------------------------------------------------
(* The pruning of a market. *)

LEMMA EvictKeeps ==
    ASSUME IInv, NEW m \in Markets, Evict(m)
    PROVE  IInv'
<1>1. /\ UNCHANGED <<worker, lane, venue, told, late, closed>>
      /\ life' = [life EXCEPT ![m] = "none"]
      /\ forgot \subseteq forgot'
      /\ (\E o \in Orders : MarketOf(o) = m /\ venue[o] # "unsent") => m \in forgot'
    BY DEF Evict, venue_vars
<1>2. Typed'
    BY EvictTypes DEF IInv
<1>3. Told' /\ LaneTrue'
    BY <1>1 DEF IInv, Told, LaneTrue, Sending
<1>4. LateKnown'
    BY <1>1, LateKept DEF IInv
<1>5. OnlyOne'
    <2>1. Grows
        BY <1>1 DEF Grows
    <2> SUFFICES ASSUME NEW n \in Markets, ~ Doubtful(n)'
                 PROVE  Single(n)'
        BY DEF OnlyOne
    <2>2. Single(n) /\ Live(n)' = Live(n)
        BY <1>1, <2>1, DoubtsStay DEF IInv, OnlyOne, Live, OrdersOf
    <2>3. CASE n = m
        <3>1. Live(m) = {}
            BY <1>1, <2>3 DEF Doubtful, Live, OrdersOf
        <3> QED BY <1>1, <2>2, <2>3, <3>1 DEF Single, OneLive, LiveIsKnown, NothingElse, OrdersOf
    <2>4. CASE n # m
        <3>1. life'[n] = life[n]
            BY <1>1, <2>4 DEF IInv, Typed, TypeOK
        <3>2. Stopped(n)' = Stopped(n)
            BY <3>1 DEF Stopped
        <3> QED BY <1>1, <2>2, <3>2 DEF Single, OneLive, LiveIsKnown, NothingElse, OrdersOf, Sending, Bought
    <2> QED BY <2>3, <2>4
<1> QED BY <1>2, <1>3, <1>4, <1>5 DEF IInv

----------------------------------------------------------------------------
(* The decisions. *)

LEMMA SkipKeeps ==
    ASSUME IInv, NEW m \in Markets, TickSkip(m)
    PROVE  IInv'
<1>1. /\ worker = Idle /\ AllowsEntry(life[m])
      /\ worker' = [doing |-> "skipping", orders |-> {<<m, 1>>}, heard |-> "nothing"]
      /\ life' = [life EXCEPT ![m] = IF @ = "none" THEN "watching" ELSE @]
      /\ UNCHANGED <<lane, venue, told, forgot, late, closed>>
    BY DEF TickSkip, venue_vars, history
<1>2. Typed'
    BY SkipTypes DEF IInv
<1>3. Told' /\ LaneTrue'
    BY <1>1 DEF IInv, Told, LaneTrue, Sending, Idle
<1>4. LateKnown'
    BY <1>1, LateKept DEF IInv
<1>5. OnlyOne'
    <2>1. Grows
        BY <1>1 DEF Grows
    <2> SUFFICES ASSUME NEW n \in Markets, ~ Doubtful(n)'
                 PROVE  Single(n)'
        BY DEF OnlyOne
    <2>2. Single(n) /\ Live(n)' = Live(n)
        BY <1>1, <2>1, DoubtsStay DEF IInv, OnlyOne, Live, OrdersOf
    <2>3. CASE n = m
        <3>1. Live(m) = {}
            BY <1>1, <2>2, <2>3 DEF Single, LiveIsKnown, AllowsEntry, Stopped, Sending, Bought, Idle
        <3>2. Live(m)' = {}
            BY <2>2, <2>3, <3>1
        <3> QED BY <2>3, <3>2 DEF Single, OneLive, LiveIsKnown, NothingElse
    <2>4. CASE n # m
        <3>1. life'[n] = life[n]
            BY <1>1, <2>4 DEF IInv, Typed, TypeOK
        <3>2. \A o \in OrdersOf(n) : worker.orders # {o} /\ worker'.orders # {o}
            BY <1>1, <2>4 DEF OrdersOf, MarketOf, Idle
        <3> QED BY <2>2, <3>1, <3>2, Elsewhere
    <2> QED BY <2>3, <2>4
<1> QED BY <1>2, <1>3, <1>4, <1>5 DEF IInv

LEMMA EnterKeeps ==
    ASSUME IInv, NEW m \in Markets, TickEnter(m)
    PROVE  IInv'
<1>1. /\ worker = Idle /\ AllowsEntry(life[m]) /\ ~ IsShut(m)
      /\ life' = [life EXCEPT ![m] = "submitting"]
      /\ UNCHANGED <<lane, told, forgot, late, closed>>
    BY DEF TickEnter, GateClosed, history
<1>2. Typed'
    BY EnterTypes DEF IInv
<1>3. \A n \in Markets : Single(n) => (n = m => Live(n) = {})
    BY <1>1 DEF Single, LiveIsKnown, AllowsEntry, Stopped, Sending, Bought, Idle
<1>4. \A n \in Markets : n # m => life'[n] = life[n]
    BY <1>1 DEF IInv, Typed, TypeOK
<1>5. CASE worker' = [doing |-> "handling", orders |-> {<<m, 1>>}, heard |-> "rejected"] /\ UNCHANGED venue
    <2>1. Told' /\ LaneTrue'
        BY <1>1, <1>5 DEF IInv, Told, LaneTrue, Sending, Idle
    <2>2. LateKnown'
        BY <1>1, <1>5, LateKept DEF IInv
    <2>3. OnlyOne'
        <3>1. Grows
            BY <1>1, <1>5 DEF Grows
        <3> SUFFICES ASSUME NEW n \in Markets, ~ Doubtful(n)'
                     PROVE  Single(n)'
            BY DEF OnlyOne
        <3>2. Single(n) /\ Live(n)' = Live(n)
            BY <1>5, <3>1, DoubtsStay DEF IInv, OnlyOne, Live, OrdersOf
        <3>3. CASE n = m
            <4>1. Live(n)' = {}
                BY <1>3, <3>2, <3>3
            <4> QED BY <4>1 DEF Single, OneLive, LiveIsKnown, NothingElse
        <3>4. CASE n # m
            <4>1. \A o \in OrdersOf(n) : worker.orders # {o} /\ worker'.orders # {o}
                BY <1>1, <1>5, <3>4 DEF OrdersOf, MarketOf, Idle
            <4> QED BY <1>4, <3>2, <3>4, <4>1, Elsewhere
        <3> QED BY <3>3, <3>4
    <2> QED BY <1>2, <2>1, <2>2, <2>3 DEF IInv
<1>6. CASE /\ Unsent(m) # {}
           /\ worker' = [doing |-> "sending", orders |-> {NextOrder(m)}, heard |-> "nothing"]
           /\ venue' = [venue EXCEPT ![NextOrder(m)] = "handed"]
    <2>1. PICK o \in Orders : o = NextOrder(m) /\ MarketOf(o) = m /\ venue[o] = "unsent"
        BY <1>6, NextOrderUnsent
    <2>2. /\ worker' = [doing |-> "sending", orders |-> {o}, heard |-> "nothing"]
          /\ venue' = [venue EXCEPT ![o] = "handed"]
          /\ venue \in [Orders -> Fates]
        BY <1>6, <2>1 DEF IInv, Typed, TypeOK, Fates
    <2>3. venue'[o] = "handed" /\ \A p \in Orders : p # o => venue'[p] = venue[p]
        BY <2>2
    <2>4. Told'
        BY <1>1, <2>1, <2>2, <2>3 DEF IInv, Told, Sending, Idle
    <2>5. Grows
        BY <1>1, <2>1, <2>3 DEF Grows
    <2>6. LaneTrue'
        <3> SUFFICES ASSUME NEW i \in 1 .. Len(lane), lane[i].kind = "failed"
                     PROVE  venue'[lane[i].order] = "failed"
            BY <1>1 DEF LaneTrue
        <3>1. lane[i] \in Events
            BY ElementOfSeq DEF IInv, Typed, TypeOK, Events
        <3>2. lane[i].order \in Orders
            BY <3>1 DEF Events
        <3>3. venue[lane[i].order] = "failed"
            BY DEF IInv, LaneTrue
        <3> QED BY <2>5, <3>2, <3>3 DEF Grows
    <2>7. LateKnown'
        <3> SUFFICES ASSUME NEW n \in Markets
                     PROVE  LateOnes(n)'
            BY DEF LateKnown
        <3>1. /\ LateOnes(n) /\ Doubts(n)' = Doubts(n) /\ IsShut(n)' = IsShut(n)
              /\ late'[n] = late[n] /\ late[n] \in 0 .. 2
            BY <1>1 DEF IInv, LateKnown, Doubts, OrdersOf, IsShut, Typed, TypeOK
        <3>2. CASE n = m
            <4>1. ~ (late[n] >= 1)
                BY <1>1, <3>1, <3>2 DEF LateOnes
            <4>2. ~ (late[n] >= 2)
                BY <3>1, <4>1
            <4> QED BY <3>1, <4>1, <4>2 DEF LateOnes
        <3>3. CASE n # m
            <4>1. \A p \in OrdersOf(n) : venue'[p] = venue[p]
                BY <2>1, <2>3, <3>3 DEF OrdersOf
            <4> QED BY <3>1, <4>1 DEF LateOnes, OrdersOf
        <3> QED BY <3>2, <3>3
    <2>8. OnlyOne'
        <3> SUFFICES ASSUME NEW n \in Markets, ~ Doubtful(n)'
                     PROVE  Single(n)'
            BY DEF OnlyOne
        <3>1. Single(n)
            BY <2>5, DoubtsStay DEF IInv, OnlyOne
        <3>2. CASE n = m
            <4>1. Live(n) = {}
                BY <1>3, <3>1, <3>2
            <4>2. Live(n)' \subseteq {o}
                BY <2>3, <4>1 DEF Live, OrdersOf
            <4>3. o \in Live(n)' /\ Sending(o)'
                BY <2>1, <2>2, <2>3, <3>2 DEF Live, OrdersOf, Sending
            <4>4. \A p : worker'.orders = {p} => p = o
                BY <2>2
            <4>5. worker'.doing = "sending"
                BY <2>2
            <4> QED BY <4>2, <4>3, <4>4, <4>5 DEF Single, OneLive, LiveIsKnown, NothingElse
        <3>3. CASE n # m
            <4>1. \A p \in OrdersOf(n) : worker.orders # {p} /\ worker'.orders # {p}
                BY <1>1, <2>1, <2>2, <3>3 DEF OrdersOf, Idle
            <4>2. Live(n)' = Live(n)
                BY <2>1, <2>3, <3>3 DEF Live, OrdersOf
            <4> QED BY <1>4, <3>1, <3>3, <4>1, <4>2, Elsewhere
        <3> QED BY <3>2, <3>3
    <2> QED BY <1>2, <2>4, <2>6, <2>7, <2>8 DEF IInv
<1> QED BY <1>5, <1>6 DEF TickEnter

----------------------------------------------------------------------------
(* The answers and results. *)

\* The market at hand was watched for nothing.
LEMMA EndSkipKeeps ==
    ASSUME IInv, EndSkip
    PROVE  IInv'
<1>1. PICK o \in Orders : o = OrderAtHand /\ worker.orders = {o} /\ MarketOf(o) \in Markets
    BY OrderAtHandType DEF IInv, EndSkip, Doings
<1>2. PICK m \in Markets : m = MarketOf(o)
    BY <1>1
<1>3. /\ worker.doing = "skipping" /\ worker' = Idle
      /\ life' = [life EXCEPT ![m] = "watching"]
      /\ UNCHANGED <<lane, venue, told, forgot, late, closed>>
    BY <1>1, <1>2 DEF EndSkip, venue_vars, history
<1>4. Typed'
    BY WorkerTypes DEF IInv
<1>5. Told' /\ LaneTrue'
    BY <1>1, <1>3 DEF IInv, Told, LaneTrue, Sending, Idle
<1>6. LateKnown'
    BY <1>3, LateKept DEF IInv
<1>7. OnlyOne'
    <2>1. Grows
        BY <1>3 DEF Grows
    <2> SUFFICES ASSUME NEW n \in Markets, ~ Doubtful(n)'
                 PROVE  Single(n)'
        BY DEF OnlyOne
    <2>2. Single(n) /\ Live(n)' = Live(n)
        BY <1>3, <2>1, DoubtsStay DEF IInv, OnlyOne, Live, OrdersOf
    <2>3. CASE n = m
        <3>1. Live(n)' = {}
            BY <1>1, <1>2, <1>3, <2>2, <2>3 DEF Single, NothingElse, OrdersOf
        <3> QED BY <3>1 DEF Single, OneLive, LiveIsKnown, NothingElse
    <2>4. CASE n # m
        <3>1. life'[n] = life[n]
            BY <1>3, <2>4 DEF IInv, Typed, TypeOK
        <3>2. \A p \in OrdersOf(n) : worker.orders # {p} /\ worker'.orders # {p}
            BY <1>1, <1>2, <1>3, <2>4 DEF OrdersOf, Idle
        <3> QED BY <2>2, <3>1, <3>2, Elsewhere
    <2> QED BY <2>3, <2>4
<1> QED BY <1>4, <1>5, <1>6, <1>7 DEF IInv

LEMMA AnswerKeeps ==
    ASSUME IInv, Answer
    PROVE  IInv'
<1>1. PICK o \in Orders : o = OrderAtHand /\ worker.orders = {o} /\ MarketOf(o) \in Markets
    BY OrderAtHandType DEF IInv, Answer, Doings
<1>2. PICK m \in Markets : m = MarketOf(o)
    BY <1>1
<1>3. PICK status \in Answers(o) :
        /\ worker' = [worker EXCEPT !.doing = "handling", !.heard = status]
        /\ told' = [told EXCEPT ![o] =
                        CASE LeavesDoubt(o, status) -> "doubt"
                          [] status = "live" -> "rests"
                          [] OTHER -> "sure"]
    BY <1>1, Zenon DEF Answer
<1>4. Sending(o) /\ UNCHANGED <<life, lane, venue, forgot, late, closed>>
    BY <1>1 DEF Answer, Sending, venue_vars
<1>5. Typed'
    BY WorkerTypes DEF IInv
<1>6. /\ worker'.doing = "handling" /\ worker'.orders = {o} /\ worker'.heard = status
      /\ told \in [Orders -> {"nothing", "sure", "rests", "doubt"}]
      /\ venue[o] # "unsent" /\ told[o] = "nothing"
    BY <1>1, <1>3, <1>4 DEF IInv, Typed, TypeOK, Told
<1>7. /\ LeavesDoubt(o, status) => told'[o] = "doubt"
      /\ \A p \in Orders : p # o => told'[p] = told[p]
    <2>1. \A p \in Orders : p # o => told'[p] = told[p]
        BY <1>3, <1>6
    <2>2. CASE LeavesDoubt(o, status)
        <3>1. told' = [told EXCEPT ![o] = "doubt"]
            BY <1>3, <2>2 DEF LeavesDoubt
        <3> QED BY <1>6, <2>1, <3>1
    <2> QED BY <2>1, <2>2
<1>8. venue[o] = "handed" => LeavesDoubt(o, status)
    BY DEF Answers, LeavesDoubt
<1>9. Told'
    <2> SUFFICES ASSUME NEW p \in Orders
                 PROVE  /\ venue'[p] = "unsent" => told'[p] = "nothing"
                        /\ venue'[p] = "handed" => told'[p] = "doubt"
        BY <1>6 DEF Told, Sending
    <2>1. CASE p = o
        BY <1>4, <1>6, <1>7, <1>8, <2>1
    <2>2. CASE p # o
        BY <1>4, <1>7, <2>2 DEF IInv, Told, Sending
    <2> QED BY <2>1, <2>2
<1>10. LaneTrue'
    BY <1>4 DEF IInv, LaneTrue
<1>11. Grows
    BY <1>4, <1>6, <1>7 DEF Grows
<1>12. LateKnown'
    BY <1>4, <1>11, LateKept DEF IInv, Grows
<1>13. OnlyOne'
    <2> SUFFICES ASSUME NEW n \in Markets, ~ Doubtful(n)'
                 PROVE  Single(n)'
        BY DEF OnlyOne
    <2>1. Single(n) /\ Live(n)' = Live(n)
        BY <1>4, <1>11, DoubtsStay DEF IInv, OnlyOne, Live, OrdersOf
    <2>2. CASE n = m
        <3>1. Live(n) \subseteq {o}
            BY <1>1, <1>2, <1>4, <2>1, <2>2 DEF Single, NothingElse, OrdersOf, Sending
        <3>2. ~ LeavesDoubt(o, status)
            BY <1>1, <1>2, <1>7, <2>2 DEF Doubtful
        <3>3. status \in {"full_fill", "live"} \/ venue[o] = "closed"
            BY <3>2 DEF Answers, LeavesDoubt
        <3>4. CASE status \in {"full_fill", "live"}
            <4>1. Bought(o)'
                BY <1>6, <3>4 DEF Bought
            <4>2. Live(n)' \subseteq {o}
                BY <2>1, <3>1
            <4>3. OneLive(n)' /\ LiveIsKnown(n)'
                BY <4>1, <4>2 DEF OneLive, LiveIsKnown
            <4>4. NothingElse(n)'
                BY <1>6, <3>4 DEF NothingElse
            <4> QED BY <4>3, <4>4 DEF Single
        <3>5. CASE venue[o] = "closed"
            <4>1. Live(n)' = {}
                BY <2>1, <3>1, <3>5 DEF Live
            <4> QED BY <4>1 DEF Single, OneLive, LiveIsKnown, NothingElse
        <3> QED BY <3>3, <3>4, <3>5
    <2>3. CASE n # m
        <3>1. \A p \in OrdersOf(n) : worker.orders # {p} /\ worker'.orders # {p}
            BY <1>1, <1>2, <1>6, <2>3 DEF OrdersOf
        <3> QED BY <1>4, <2>1, <3>1, Elsewhere
    <2> QED BY <2>2, <2>3
<1> QED BY <1>5, <1>9, <1>10, <1>12, <1>13 DEF IInv

\* A result moves the lifecycle of one market while the orders stay as they are.
LEMMA ResultKeeps ==
    ASSUME IInv, NEW m \in Markets,
           UNCHANGED <<venue, told, forgot>>,
           worker'.doing \notin {"sending", "skipping", "handling"},
           \A n \in Markets : n # m => life'[n] = life[n],
           \A n \in Markets : n # m =>
                \A o \in OrdersOf(n) : worker.orders # {o} /\ worker'.orders # {o},
           Doubtful(m) \/ Live(m) = {} \/ Stopped(m)'
    PROVE  OnlyOne'
<1>1. Grows
    BY DEF Grows
<1> SUFFICES ASSUME NEW n \in Markets, ~ Doubtful(n)'
             PROVE  Single(n)'
    BY DEF OnlyOne
<1>2. Single(n) /\ Live(n)' = Live(n) /\ ~ Doubtful(n)
    BY <1>1, DoubtsStay DEF IInv, OnlyOne, Live, OrdersOf
<1>3. CASE n = m
    BY <1>2, <1>3 DEF Single, OneLive, LiveIsKnown, NothingElse
<1>4. CASE n # m
    BY <1>2, <1>4, Elsewhere
<1> QED BY <1>3, <1>4

LEMMA HandleResultKeeps ==
    ASSUME IInv, HandleResult
    PROVE  IInv'
<1>1. PICK o \in Orders : o = OrderAtHand /\ worker.orders = {o} /\ MarketOf(o) \in Markets
    BY OrderAtHandType DEF IInv, HandleResult, Doings
<1>2. PICK m \in Markets : m = MarketOf(o)
    BY <1>1
<1>3. /\ worker.doing = "handling"
      /\ life' = [life EXCEPT ![m] = AfterBuy(worker.heard, life[m])]
      /\ worker' = IF worker.heard = "live" THEN [worker EXCEPT !.doing = "cancelling"] ELSE Idle
      /\ UNCHANGED <<lane, venue, told, forgot, late, closed>>
    BY <1>1, <1>2 DEF HandleResult, venue_vars, history
<1>4. Typed'
    BY WorkerTypes DEF IInv
<1>5. /\ life \in [Markets -> Lifecycles]
      /\ worker' = Idle \/ (worker'.doing = "cancelling" /\ worker'.orders = {o})
    BY <1>1, <1>3 DEF IInv, Typed, TypeOK
<1>6. Told' /\ LaneTrue'
    BY <1>3, <1>5 DEF IInv, Told, LaneTrue, Sending, Idle
<1>7. LateKnown'
    BY <1>3, LateKept DEF IInv
<1>8. Doubtful(m) \/ Live(m) = {} \/ Stopped(m)'
    <2>1. CASE worker.heard \in {"full_fill", "live"}
        <3>1. life'[m] \in {"paused", "position_open"}
            BY <1>3, <1>5, <2>1 DEF AfterBuy
        <3> QED BY <3>1 DEF Stopped
    <2>2. CASE worker.heard \notin {"full_fill", "live"}
        BY <1>1, <1>2, <1>3, <2>2 DEF IInv, OnlyOne, Single, NothingElse, OrdersOf
    <2> QED BY <2>1, <2>2
<1>9. OnlyOne'
    <2>1. \A n \in Markets : n # m => life'[n] = life[n]
        BY <1>3, <1>5
    <2>2. \A n \in Markets : n # m =>
            \A p \in OrdersOf(n) : worker.orders # {p} /\ worker'.orders # {p}
        BY <1>1, <1>2, <1>5 DEF OrdersOf, Idle
    <2>3. worker'.doing \notin {"sending", "skipping", "handling"}
        BY <1>5 DEF Idle
    <2> QED BY <1>3, <1>8, <2>1, <2>2, <2>3, ResultKeeps
<1> QED BY <1>4, <1>6, <1>7, <1>9 DEF IInv

LEMMA CancelKeeps ==
    ASSUME IInv, CancelResting
    PROVE  IInv'
<1>1. PICK o \in Orders : o = OrderAtHand /\ worker.orders = {o} /\ MarketOf(o) \in Markets
    BY OrderAtHandType DEF IInv, CancelResting, Doings
<1>2. PICK m \in Markets : m = MarketOf(o)
    BY <1>1
<1>3. /\ worker.doing = "cancelling" /\ worker' = Idle
      /\ life' = [life EXCEPT ![m] = "paused"]
      /\ UNCHANGED <<lane, told, forgot, late, closed>>
      /\ (venue[o] = "resting" /\ venue' = [venue EXCEPT ![o] = "closed"]) \/ venue' = venue
    BY <1>1, <1>2 DEF CancelResting, venue_vars, history
<1>4. Typed'
    BY WorkerTypes DEF IInv
<1>5. venue \in [Orders -> Fates] /\ life \in [Markets -> Lifecycles]
    BY DEF IInv, Typed, TypeOK, Fates
<1>6. \A p \in Orders : venue'[p] = venue[p] \/ (venue[p] = "resting" /\ venue'[p] = "closed")
    BY <1>3, <1>5
<1>7. Told'
    BY <1>3, <1>6 DEF IInv, Told, Sending, Idle
<1>8. Grows
    BY <1>3, <1>6 DEF Grows
<1>9. LaneTrue'
    <2> SUFFICES ASSUME NEW i \in 1 .. Len(lane), lane[i].kind = "failed"
                 PROVE  venue'[lane[i].order] = "failed"
        BY <1>3 DEF LaneTrue
    <2>1. lane[i] \in Events
        BY ElementOfSeq DEF IInv, Typed, TypeOK, Events
    <2>2. lane[i].order \in Orders
        BY <2>1 DEF Events
    <2>3. venue[lane[i].order] = "failed"
        BY DEF IInv, LaneTrue
    <2> QED BY <1>8, <2>2, <2>3 DEF Grows
<1>10. LateKnown'
    BY <1>3, <1>6, LateKept DEF IInv
<1>11. OnlyOne'
    <2> SUFFICES ASSUME NEW n \in Markets, ~ Doubtful(n)'
                 PROVE  Single(n)'
        BY DEF OnlyOne
    <2>1. Single(n)
        BY <1>8, DoubtsStay DEF IInv, OnlyOne
    <2>2. Live(n)' \subseteq Live(n)
        BY <1>6 DEF Live, OrdersOf
    <2>3. CASE n = m
        <3>1. Stopped(n)'
            BY <1>3, <1>5, <2>3 DEF Stopped
        <3> QED BY <1>3, <2>1, <2>2, <3>1 DEF Single, OneLive, LiveIsKnown, NothingElse, Idle
    <2>4. CASE n # m
        <3>1. life'[n] = life[n]
            BY <1>3, <1>5, <2>4
        <3>2. \A p \in OrdersOf(n) : worker.orders # {p} /\ worker'.orders # {p}
            BY <1>1, <1>2, <1>3, <2>4 DEF OrdersOf, Idle
        <3> QED BY <2>1, <2>2, <3>1, <3>2, Elsewhere
    <2> QED BY <2>3, <2>4
<1> QED BY <1>4, <1>7, <1>9, <1>10, <1>11 DEF IInv

LEMMA HandleEventKeeps ==
    ASSUME IInv, HandleEvent
    PROVE  IInv'
<1>1. /\ worker = Idle /\ lane \in Seq(Events) /\ lane # <<>> /\ lane' = Tail(lane)
      /\ UNCHANGED <<venue, told, forgot, late, closed>>
    BY DEF HandleEvent, IInv, Typed, TypeOK, Events, venue_vars, history
<1>2. /\ Head(lane) \in Events /\ Head(lane) = lane[1] /\ 1 \in 1 .. Len(lane)
      /\ Len(Tail(lane)) = Len(lane) - 1 /\ Len(lane) \in Nat
      /\ \A i \in 1 .. Len(Tail(lane)) : Tail(lane)[i] = lane[i + 1]
    BY <1>1, HeadTailProperties, LenProperties, EmptySeq
<1>3. PICK e \in Events : e = Head(lane)
    BY <1>2
<1>4. PICK m \in Markets : m = MarketOf(e.order)
    BY OrderMarket DEF Events
<1>5. /\ e.order \in Orders /\ life \in [Markets -> Lifecycles]
      /\ e.kind \in {"live", "full_fill", "failed", "position"}
    BY DEF IInv, Typed, TypeOK, Events
<1>6. Typed'
    BY HandleEventTypes DEF IInv
<1>7. \/ /\ e.kind = "position"
         /\ life' = [life EXCEPT ![m] = IF m \in account.held THEN "position_open" ELSE life[m]]
         /\ worker' = Idle
      \/ /\ e.kind # "position"
         /\ life' = [life EXCEPT ![m] = AfterBuy(e.kind, life[m])]
         /\ worker' = IF e.kind = "live"
                      THEN [doing |-> "cancelling", orders |-> {e.order}, heard |-> "live"]
                      ELSE Idle
    BY <1>1, <1>3, <1>4 DEF HandleEvent
<1>8. worker' = Idle \/ (worker'.doing = "cancelling" /\ worker'.orders = {e.order})
    BY <1>7
<1>9. Told'
    BY <1>1, <1>8 DEF IInv, Told, Sending, Idle
<1>10. LaneTrue'
    BY <1>1, <1>2 DEF IInv, LaneTrue
<1>11. LateKnown'
    BY <1>1, LateKept DEF IInv
<1>12. Doubtful(m) \/ Live(m) = {} \/ Stopped(m)'
    <2>1. CASE e.kind = "position"
        <3>1. life'[m] = life[m] \/ life'[m] = "position_open"
            BY <1>5, <1>7, <2>1
        <3>2. Doubtful(m) \/ Live(m) = {} \/ Stopped(m)
            BY <1>1 DEF IInv, OnlyOne, Single, LiveIsKnown, Sending, Bought, Idle
        <3> QED BY <3>1, <3>2 DEF Stopped
    <2>2. CASE e.kind \in {"full_fill", "live"}
        <3>1. life'[m] \in {"paused", "position_open"}
            BY <1>5, <1>7, <2>2 DEF AfterBuy
        <3> QED BY <3>1 DEF Stopped
    <2>3. CASE e.kind = "failed"
        <3>1. venue[e.order] = "failed"
            BY <1>2, <1>3, <2>3 DEF IInv, LaneTrue
        <3> QED BY <1>4, <1>5, <3>1 DEF Doubtful
    <2> QED BY <1>5, <2>1, <2>2, <2>3
<1>13. OnlyOne'
    <2>1. \A n \in Markets : n # m => life'[n] = life[n]
        BY <1>5, <1>7
    <2>2. \A n \in Markets : n # m =>
            \A p \in OrdersOf(n) : worker.orders # {p} /\ worker'.orders # {p}
        BY <1>1, <1>4, <1>8 DEF OrdersOf, Idle
    <2>3. worker'.doing \notin {"sending", "skipping", "handling"}
        BY <1>8 DEF Idle
    <2> QED BY <1>1, <1>12, <2>1, <2>2, <2>3, ResultKeeps
<1> QED BY <1>6, <1>9, <1>10, <1>11, <1>13 DEF IInv

----------------------------------------------------------------------------
(* The theorems. *)

LEMMA InitKnown == Init => IInv
<1> SUFFICES ASSUME Init
             PROVE  IInv
    OBVIOUS
<1>1. /\ worker = Idle /\ lane = <<>>
      /\ \A o \in Orders : venue[o] = "unsent" /\ told[o] = "nothing"
      /\ \A m \in Markets : late[m] = 0
    BY DEF Init
<1>2. Typed
    BY InitTypes
<1>3. Told /\ LaneTrue
    BY <1>1 DEF Told, LaneTrue, Sending, Idle
<1>4. \A m \in Markets : Single(m)
    <2> SUFFICES ASSUME NEW m \in Markets
                 PROVE  Single(m)
        OBVIOUS
    <2>1. Live(m) = {}
        BY <1>1 DEF Live, OrdersOf
    <2> QED BY <2>1 DEF Single, OneLive, LiveIsKnown, NothingElse
<1>5. LateKnown
    BY <1>1 DEF LateKnown, LateOnes
<1> QED BY <1>2, <1>3, <1>4, <1>5 DEF IInv, OnlyOne

LEMMA StepKeeps == IInv /\ [Next]_vars => IInv'
<1> SUFFICES ASSUME IInv, [Next]_vars
             PROVE  IInv'
    OBVIOUS
<1>1. CASE \E m \in Markets : TickSkip(m) \/ TickEnter(m) \/ Evict(m)
    BY <1>1, SkipKeeps, EnterKeeps, EvictKeeps
<1>2. CASE EndSkip \/ Answer \/ HandleResult \/ CancelResting \/ HandleEvent
    BY <1>2, EndSkipKeeps, AnswerKeeps, HandleResultKeeps, CancelKeeps, HandleEventKeeps
<1>3. CASE \E o \in Orders : Post(o) \/ Match(o) \/ Rest(o) \/ Close(o) \/ FailTrade(o)
    BY <1>3, ExchangeKeeps
<1>4. CASE Aside
    BY <1>4, AsideKeeps
<1> QED BY <1>1, <1>2, <1>3, <1>4, Steps

\* The inductive invariant: what the worker was told of its orders, what their
\* fate at the exchange is, and the lifecycle it keeps agree in every state.
THEOREM Invariance == Spec => []IInv
<1> QED BY InitKnown, StepKeeps, PTL DEF Spec

\* Every variable of the worker and of what goes on beside it has its type.
THEOREM TypeCorrect == Spec => []TypeOK
<1>1. IInv => TypeOK
    BY DEF IInv, Typed
<1> QED BY <1>1, Invariance, PTL

\* A market whose orders were all answered for truly is bought once: of its orders
\* one at most was matched (_state_allows_entry_attempt, process_event of the worker).
THEOREM NeverBoughtTwice == Spec => []BoughtOnce
<1>1. ASSUME IInv
      PROVE  BoughtOnce
    <2> SUFFICES ASSUME NEW m \in Markets, ~ Doubtful(m)
                 PROVE  Cardinality({o \in Executed(venue) : MarketOf(o) = m}) <= 1
        BY DEF BoughtOnce
    <2> DEFINE bought == {o \in Executed(venue) : MarketOf(o) = m}
    <2>1. \A o, p \in bought : o = p
        <3>1. bought \subseteq Live(m)
            BY DEF Executed, Live, OrdersOf
        <3>2. OneLive(m)
            BY <1>1 DEF IInv, OnlyOne, Single
        <3> QED BY <3>1, <3>2 DEF OneLive
    <2> HIDE DEF bought
    <2>2. Cardinality(bought) <= 1
        <3>1. CASE bought = {}
            BY <3>1, FS_EmptySet
        <3>2. CASE bought # {}
            <4>1. PICK o : bought = {o}
                BY <2>1, <3>2
            <4> QED BY <4>1, FS_Singleton
        <3> QED BY <3>1, <3>2
    <2> QED BY <2>2 DEF bought
<1> QED BY <1>1, Invariance, PTL

\* Behind a gate that is shut only the order at hand and those whose answer was
\* given up still leave (_entry_gate_closed_for_event on every event).
THEOREM ShutGatesHold == Spec => []GateTakesHold
<1>1. ASSUME IInv
      PROVE  GateTakesHold
    <2> SUFFICES ASSUME NEW m \in Markets
                 PROVE  late[m] <= 1 + Cardinality({o \in Orders : MarketOf(o) = m /\ told[o] = "doubt"})
        BY DEF GateTakesHold
    <2>1. {o \in Orders : MarketOf(o) = m /\ told[o] = "doubt"} = Doubts(m)
        BY DEF Doubts, OrdersOf
    <2>2. IsFiniteSet(Doubts(m)) /\ Cardinality(Doubts(m)) \in Nat
        BY FiniteOrders DEF Doubts, OrdersOf
    <2>3. late[m] \in 0 .. 2 /\ (late[m] >= 2 => Doubts(m) # {})
        BY <1>1 DEF IInv, Typed, TypeOK, LateKnown, LateOnes
    <2>4. Doubts(m) # {} => Cardinality(Doubts(m)) # 0
        BY <2>2, FS_EmptySet
    <2>5. late[m] <= 1 + Cardinality(Doubts(m))
        BY <2>2, <2>3, <2>4
    <2> QED BY <2>1, <2>5
<1> QED BY <1>1, Invariance, PTL

\* No BUY is handed to the executor beside one of its market that rests and that
\* the worker was told rests (_cancel_unexpected_resting_order, _pause_market).
THEOREM NothingBesideResting == Spec => NoBuyBesideResting
<1>1. ASSUME IInv, [Next]_vars
      PROVE  [\A o \in Orders :
                venue[o] = "unsent" /\ venue'[o] = "handed" /\ ~Doubtful(MarketOf(o)) =>
                    ~\E p \in Orders : MarketOf(p) = MarketOf(o) /\ venue[p] = "resting" /\ told[p] = "rests"]_vars
    <2> SUFFICES ASSUME NEW o \in Orders, venue[o] = "unsent", venue'[o] = "handed",
                        ~ Doubtful(MarketOf(o)),
                        NEW p \in Orders, MarketOf(p) = MarketOf(o), venue[p] = "resting"
                 PROVE  FALSE
        OBVIOUS
    <2>1. MarketOf(o) \in Markets /\ Single(MarketOf(o))
        BY <1>1, OrderMarket DEF IInv, OnlyOne
    <2>2. p \in Live(MarketOf(o))
        BY DEF Live, OrdersOf
    <2>3. PICK m \in Markets : TickEnter(m) /\ m = MarketOf(o)
        <3>1. CASE \E n \in Markets : TickEnter(n)
            <4>1. PICK n \in Markets : TickEnter(n)
                BY <3>1
            <4>2. Unsent(n) # {} /\ venue' = [venue EXCEPT ![NextOrder(n)] = "handed"]
                BY <4>1 DEF TickEnter
            <4>3. o = NextOrder(n)
                BY <1>1, <4>2 DEF IInv, Typed, TypeOK
            <4> QED BY <4>1, <4>2, <4>3, NextOrderUnsent
        <3>2. CASE \E n \in Orders : Post(n) \/ Match(n) \/ Rest(n) \/ Close(n) \/ FailTrade(n)
            <4>1. PICK n \in Orders : Post(n) \/ Match(n) \/ Rest(n) \/ Close(n) \/ FailTrade(n)
                BY <3>2
            <4>2. venue[n] \in {"handed", "sent", "resting", "matched"}
                  /\ \E fate \in {"sent", "resting", "matched", "failed", "closed"} :
                        venue' = [venue EXCEPT ![n] = fate]
                BY <4>1, ExchangeEffect
            <4> QED BY <1>1, <4>2 DEF IInv, Typed, TypeOK
        <3>3. CASE \E n \in Markets : TickSkip(n) \/ Evict(n)
            BY <3>3 DEF TickSkip, Evict, venue_vars
        <3>4. CASE EndSkip \/ Answer \/ HandleResult \/ HandleEvent
            BY <3>4 DEF EndSkip, Answer, HandleResult, HandleEvent, venue_vars
        <3>5. CASE CancelResting
            <4>1. venue' = venue \/ (venue[OrderAtHand] = "resting"
                                     /\ venue' = [venue EXCEPT ![OrderAtHand] = "closed"])
                BY <3>5 DEF CancelResting, venue_vars
            <4> QED BY <1>1, <4>1 DEF IInv, Typed, TypeOK
        <3>6. CASE Aside
            BY <3>6, AsideEffect
        <3> QED BY <1>1, <3>1, <3>2, <3>3, <3>4, <3>5, <3>6, Steps
    <2>4. worker = Idle /\ AllowsEntry(life[m])
        BY <2>3 DEF TickEnter
    <2>5. Live(m) = {}
        BY <2>1, <2>3, <2>4 DEF Single, LiveIsKnown, AllowsEntry, Stopped, Sending, Bought, Idle
    <2> QED BY <2>2, <2>3, <2>5
<1> QED BY <1>1, Invariance, PTL DEF Spec, NoBuyBesideResting

=============================================================================
