---------------------- MODULE AccountProjectionProofs ----------------------
(***************************************************************************)
(* Theorems about the account projection, for any orders, any amounts and  *)
(* any length of the frame queue: the types, and that an undisturbed poll  *)
(* leaves the projection equal to the exchange and nothing but a new order *)
(* or a frame takes that away.                                             *)
(***************************************************************************)
EXTENDS AccountProjection, FiniteSetTheorems, TLAPS

----------------------------------------------------------------------------
(* The inductive invariant. *)

\* Who is busy has the snapshot of when it began, and an order unless only the
\* flags are left to write.
DesksHold ==
    \A d \in Desks :
        /\ desk[d].doing # "nothing" => desk[d].snapshot # {}
        /\ desk[d].doing \in {"sending", "counting", "replacing"} => desk[d].order # {}

\* The exchange sells nothing that is not there.
Funded == VenueShares(venue) \in Nat

\* The order book is the one a poll would write now.
Written == open = Listed(Resting(venue))

\* What the history knows: a poll that began in a quiet moment still runs and has
\* seen one state of the exchange; after it, the projection is that state.
CalmInv ==
    /\ calm = "polling" => Quiet /\ poll.running /\ poll.seen = {View(venue)}
    /\ calm = "yes" => Quiet /\ Agrees /\ Written /\ (poll.running => poll.seen = {View(venue)})

Inv == TypeOK /\ DesksHold /\ Funded /\ CalmInv

----------------------------------------------------------------------------
(* Cardinalities. *)

LEMMA FiniteOrders ==
    ASSUME NEW S \in SUBSET Orders
    PROVE  IsFiniteSet(S) /\ Cardinality(S) \in Nat
BY OrdersAssumption, FS_Subset, FS_CardinalityType

LEMMA ExecutedType ==
    ASSUME NEW v
    PROVE  /\ Executed(v) \cap BuyOrders \in SUBSET Orders
           /\ Executed(v) \cap SellOrders \in SUBSET Orders
           /\ Resting(v) \in SUBSET Orders
           /\ VenueShares(v) \in Int /\ VenueCash(v) \in Int
           /\ View(v).resting = Resting(v) /\ View(v).shares = VenueShares(v)
           /\ View(v).cash = VenueCash(v)
<1>1. /\ Executed(v) \cap BuyOrders \in SUBSET Orders
      /\ Executed(v) \cap SellOrders \in SUBSET Orders
      /\ Resting(v) \in SUBSET Orders
  BY DEF Executed, Orders, Resting
<1>2. QED
  BY <1>1, FiniteOrders, AmountsAssumption DEF VenueShares, VenueCash, View

LEMMA ViewType ==
    ASSUME NEW v, VenueShares(v) \in Nat
    PROVE  View(v) \in Views
BY ExecutedType DEF View, Views

\* One order more on a side, or one less, moves the shares by one.
LEMMA OneMore ==
    ASSUME NEW S \in SUBSET Orders, NEW o \in Orders, o \notin S
    PROVE  Cardinality(S \cup {o}) = Cardinality(S) + 1
BY FiniteOrders, FS_AddElement

LEMMA SharesOfSides ==
    ASSUME NEW v, NEW w,
           Executed(v) \cap BuyOrders = Executed(w) \cap BuyOrders,
           Executed(v) \cap SellOrders = Executed(w) \cap SellOrders
    PROVE  VenueShares(v) = VenueShares(w)
BY DEF VenueShares

\* An order that becomes executed adds or takes a share.
LEMMA SharesMove ==
    ASSUME NEW v \in Venues, NEW w \in Venues, NEW o \in Orders,
           o \notin Executed(v), Executed(w) = Executed(v) \cup {o}
    PROVE  VenueShares(w) = IF o \in BuyOrders THEN VenueShares(v) + 1 ELSE VenueShares(v) - 1
<1> DEFINE B(x) == Executed(x) \cap BuyOrders
           S(x) == Executed(x) \cap SellOrders
<1>1. /\ B(v) \in SUBSET Orders /\ S(v) \in SUBSET Orders
      /\ Cardinality(B(v)) \in Nat /\ Cardinality(S(v)) \in Nat
  BY ExecutedType, FiniteOrders
<1>2. /\ VenueShares(v) = Holding + Cardinality(B(v)) - Cardinality(S(v))
      /\ VenueShares(w) = Holding + Cardinality(B(w)) - Cardinality(S(w))
  BY DEF VenueShares
<1>3. o \in BuyOrders => B(w) = B(v) \cup {o} /\ S(w) = S(v)
  BY OrdersAssumption
<1>4. o \notin BuyOrders => S(w) = S(v) \cup {o} /\ B(w) = B(v)
  BY DEF Orders
<1>5. o \notin B(v) /\ o \notin S(v)
  OBVIOUS
<1> HIDE DEF B, S
<1>6. o \in BuyOrders => Cardinality(B(w)) = Cardinality(B(v)) + 1
  BY <1>1, <1>3, <1>5, OneMore
<1>7. o \notin BuyOrders => Cardinality(S(w)) = Cardinality(S(v)) + 1
  BY <1>1, <1>4, <1>5, OneMore
<1>8. QED BY <1>1, <1>2, <1>3, <1>4, <1>6, <1>7, AmountsAssumption

LEMMA SharesStay ==
    ASSUME NEW v, NEW w, Executed(w) = Executed(v)
    PROVE  VenueShares(w) = VenueShares(v)
BY DEF VenueShares

----------------------------------------------------------------------------
(* Types. *)

Fates == {"unsent", "sent", "resting", "matched", "confirmed", "failed", "closed"}

LEMMA OfferedType ==
    ASSUME NEW queue \in Seq(Frames), Len(queue) <= FrameLimit, NEW frame \in Frames
    PROVE  Offered(queue, frame) \in Seq(Frames) /\ Len(Offered(queue, frame)) <= FrameLimit
<1>1. CASE Len(queue) < FrameLimit
  BY <1>1, FrameLimitAssumption DEF Offered
<1>2. CASE ~(Len(queue) < FrameLimit)
  <2>1. queue # <<>>
    BY <1>2, FrameLimitAssumption
  <2>2. Tail(queue) \in Seq(Frames) /\ Len(Tail(queue)) = Len(queue) - 1
    BY <2>1
  <2>3. QED BY <1>2, <2>2, FrameLimitAssumption DEF Offered
<1>3. QED BY <1>1, <1>2

LEMMA FrameTypes ==
    ASSUME NEW o \in Orders
    PROVE  /\ \A status \in {"live", "matched", "cancelled"} : OrderFrame(o, status) \in Frames
           /\ \A status \in {"matched", "confirmed", "failed"} : TradeFrame(o, status) \in Frames
BY DEF OrderFrame, TradeFrame, Frames

LEMMA ReportType ==
    ASSUME TypeOK
    PROVE  /\ \A f \in Frames : OfferedAll(frames, <<f>>) \in Seq(Frames)
                                  /\ Len(OfferedAll(frames, <<f>>)) <= FrameLimit
           /\ \A f, g \in Frames : OfferedAll(frames, <<f, g>>) \in Seq(Frames)
                                     /\ Len(OfferedAll(frames, <<f, g>>)) <= FrameLimit
<1>1. \A f \in Frames : OfferedAll(frames, <<f>>) = Offered(frames, f)
  BY DEF OfferedAll
<1>2. \A f, g \in Frames : OfferedAll(frames, <<f, g>>) = Offered(Offered(frames, f), g)
  BY DEF OfferedAll
<1>3. \A f \in Frames : Offered(frames, f) \in Seq(Frames) /\ Len(Offered(frames, f)) <= FrameLimit
  BY OfferedType DEF TypeOK
<1>4. QED BY <1>1, <1>2, <1>3, OfferedType

\* A fate of one order, and what the poll has seen of it.
LEMMA BecomeType ==
    ASSUME TypeOK, NEW o \in Orders, NEW fate \in Fates, Become(o, fate),
           VenueShares(venue') \in Nat
    PROVE  /\ venue' = [venue EXCEPT ![o] = fate] /\ venue' \in Venues
           /\ poll' \in [running : BOOLEAN, seen : SUBSET Views]
<1>1. venue' = [venue EXCEPT ![o] = fate]
  BY DEF Become
<1>2. venue' \in Venues
  BY <1>1 DEF TypeOK, Venues, Fates
<1>3. View(venue') \in Views
  BY ViewType
<1>4. poll' = [poll EXCEPT !.seen = IF poll.running THEN @ \cup {View(venue')} ELSE @]
  BY <1>1 DEF Become
<1>5. QED BY <1>1, <1>2, <1>3, <1>4 DEF TypeOK

LEMMA BecomeShares ==
    ASSUME TypeOK, NEW o \in Orders, NEW fate \in Fates, venue' = [venue EXCEPT ![o] = fate]
    PROVE  /\ o \notin Executed(venue) /\ fate \notin {"matched", "confirmed"}
                => VenueShares(venue') = VenueShares(venue)
           /\ o \in Executed(venue) /\ fate \in {"matched", "confirmed"}
                => VenueShares(venue') = VenueShares(venue)
           /\ o \notin Executed(venue) /\ fate \in {"matched", "confirmed"}
                => VenueShares(venue') = IF o \in BuyOrders THEN VenueShares(venue) + 1
                                                            ELSE VenueShares(venue) - 1
           /\ o \in Executed(venue) /\ fate \notin {"matched", "confirmed"}
                => VenueShares(venue) = IF o \in BuyOrders THEN VenueShares(venue') + 1
                                                           ELSE VenueShares(venue') - 1
<1>1. venue \in Venues /\ venue' \in Venues /\ venue'[o] = fate
  BY DEF TypeOK, Venues, Fates
<1>2. Executed(venue') = IF fate \in {"matched", "confirmed"}
                         THEN Executed(venue) \cup {o} ELSE Executed(venue) \ {o}
  BY <1>1 DEF Executed, TypeOK, Venues
<1>3. CASE o \notin Executed(venue) /\ fate \notin {"matched", "confirmed"}
  <2>1. Executed(venue') = Executed(venue)
    BY <1>2, <1>3
  <2>2. QED BY <1>3, <2>1, SharesStay
<1>4. CASE o \in Executed(venue) /\ fate \in {"matched", "confirmed"}
  <2>1. Executed(venue') = Executed(venue)
    BY <1>2, <1>4
  <2>2. QED BY <1>4, <2>1, SharesStay
<1>5. CASE o \notin Executed(venue) /\ fate \in {"matched", "confirmed"}
  <2>1. Executed(venue') = Executed(venue) \cup {o}
    BY <1>2, <1>5
  <2>2. VenueShares(venue') = IF o \in BuyOrders THEN VenueShares(venue) + 1
                                                  ELSE VenueShares(venue) - 1
    BY <1>1, <1>5, <2>1, SharesMove
  <2>3. QED BY <1>5, <2>2
<1>6. CASE o \in Executed(venue) /\ fate \notin {"matched", "confirmed"}
  <2>1. Executed(venue) = Executed(venue') \cup {o} /\ o \notin Executed(venue')
    BY <1>2, <1>6
  <2>2. VenueShares(venue) = IF o \in BuyOrders THEN VenueShares(venue') + 1
                                                 ELSE VenueShares(venue') - 1
    BY <1>1, <2>1, SharesMove
  <2>3. QED BY <1>6, <2>2
<1>7. QED BY <1>3, <1>4, <1>5, <1>6

\* Every step of the exchange leaves it with shares it has.
LEMMA VenueFunded ==
    ASSUME TypeOK, Funded, NEW o \in Orders,
           Match(o) \/ Settle(o) \/ Rest(o) \/ Refuse(o) \/ CloseResting(o)
    PROVE  VenueShares(venue') \in Nat
<1>0. VenueShares(venue) \in Nat /\ VenueShares(venue') \in Int
  BY ExecutedType DEF Funded
<1>1. CASE Match(o)
  <2>1. venue' = [venue EXCEPT ![o] = "matched"] /\ o \notin Executed(venue)
    BY <1>1 DEF Match, Become, Executed
  <2>2. VenueShares(venue') = IF o \in BuyOrders THEN VenueShares(venue) + 1
                                                  ELSE VenueShares(venue) - 1
    BY <2>1, BecomeShares DEF Fates
  <2>3. QED BY <1>0, <1>1, <2>2 DEF Match
<1>2. CASE Settle(o)
  <2>1. PICK status \in {"confirmed", "failed"} :
          /\ status = "failed" /\ o \in BuyOrders => VenueShares(venue) > 0
          /\ venue' = [venue EXCEPT ![o] = status]
    BY <1>2 DEF Settle, Become
  <2>2. o \in Executed(venue)
    BY <1>2 DEF Settle, Executed
  <2>3. CASE status = "confirmed"
    <3>1. VenueShares(venue') = VenueShares(venue)
      BY <2>1, <2>2, <2>3, BecomeShares DEF Fates
    <3>2. QED BY <1>0, <3>1
  <2>4. CASE status = "failed"
    <3>1. VenueShares(venue) = IF o \in BuyOrders THEN VenueShares(venue') + 1
                                                   ELSE VenueShares(venue') - 1
      BY <2>1, <2>2, <2>4, BecomeShares DEF Fates
    <3>2. QED BY <1>0, <2>1, <2>4, <3>1
  <2>5. QED BY <2>1, <2>3, <2>4
<1>3. CASE Rest(o) \/ Refuse(o) \/ CloseResting(o)
  <2>1. PICK fate \in {"resting", "closed"} : venue' = [venue EXCEPT ![o] = fate]
    BY <1>3 DEF Rest, Refuse, CloseResting, Become
  <2>2. o \notin Executed(venue)
    BY <1>3 DEF Rest, Refuse, CloseResting, Executed
  <2>3. VenueShares(venue') = VenueShares(venue)
    BY <2>1, <2>2, BecomeShares DEF Fates
  <2>4. QED BY <1>0, <2>3
<1>4. QED BY <1>1, <1>2, <1>3
----------------------------------------------------------------------------
(* The store keeps its type whatever is written to it. *)

LEMMA StoreTypes ==
    ASSUME NEW s \in Stores, NEW snapshot \in Stores
    PROVE  /\ \A n \in Nat : BuyApplied(s, snapshot, n) \in Stores
           /\ BalanceRestored(s, snapshot) \in Stores
           /\ \A o : FillApplied(s, o) \in Stores
           /\ \A n \in Nat : Positioned(s, n) \in Stores
           /\ \A n \in Int : [s EXCEPT !.balance = n] \in Stores
<1>1. ASSUME NEW n \in Nat PROVE BuyApplied(s, snapshot, n) \in Stores
  <2>1. snapshot.shares + n \in Nat
    BY DEF Stores
  <2>2. [snapshot EXCEPT !.held = TRUE, !.shares = @ + n] \in Stores
    BY <2>1 DEF Stores
  <2>3. QED BY <2>2 DEF BuyApplied
<1>2. BalanceRestored(s, snapshot) \in Stores
  BY DEF BalanceRestored, Stores
<1>3. ASSUME NEW o PROVE FillApplied(s, o) \in Stores
  <2> DEFINE shares == IF s.shares > 0 THEN s.shares - 1 ELSE 0
             sells == IF s.openSell > 0 THEN s.openSell - 1 ELSE 0
  <2>1. shares \in Nat /\ sells \in Nat /\ s.shares + 1 \in Nat
    BY DEF Stores
  <2>2. FillApplied(s, o) = IF o \in BuyOrders THEN [s EXCEPT !.held = TRUE, !.shares = @ + 1]
                            ELSE [s EXCEPT !.held = TRUE, !.shares = shares, !.openSell = sells]
    BY DEF FillApplied
  <2> HIDE DEF shares, sells
  <2>3. [s EXCEPT !.held = TRUE, !.shares = @ + 1] \in Stores
    BY <2>1 DEF Stores
  <2>4. [s EXCEPT !.held = TRUE, !.shares = shares, !.openSell = sells] \in Stores
    BY <2>1 DEF Stores
  <2>5. QED BY <2>2, <2>3, <2>4
<1>4. ASSUME NEW n \in Nat PROVE Positioned(s, n) \in Stores
  <2>1. (n > 0) \in BOOLEAN
    OBVIOUS
  <2>2. QED BY <2>1 DEF Positioned, Stores
<1>5. \A n \in Int : [s EXCEPT !.balance = n] \in Stores
  BY DEF Stores
<1>6. QED BY <1>1, <1>2, <1>3, <1>4, <1>5

LEMMA SellAppliedType ==
    ASSUME NEW s \in Stores, NEW snapshot \in Stores, NEW o, NEW remaining \in Nat
    PROVE  SellApplied(s, snapshot, o, remaining) \in Stores
<1> DEFINE position == IF s.held THEN s ELSE [snapshot EXCEPT !.balance = s.balance]
           own == IF open[o] = "none" THEN 0 ELSE 1
           others == IF position.openSell > own THEN position.openSell - own ELSE 0
<1>1. position \in Stores
  BY DEF Stores
<1>2. own \in Nat
  OBVIOUS
<1>3. others \in Nat
  <2> HIDE DEF position, own
  <2>1. position.openSell \in Nat
    BY <1>1 DEF Stores
  <2>2. QED BY <1>2, <2>1
<1>4. SellApplied(s, snapshot, o, remaining)
        = IF position.held THEN [position EXCEPT !.openSell = others + remaining] ELSE s
  BY DEF SellApplied
<1> HIDE DEF position, own, others
<1>5. QED BY <1>1, <1>3, <1>4 DEF Stores

LEMMA CoveredType ==
    ASSUME NEW s \in Stores, NEW sells \in SUBSET Orders
    PROVE  Covered(s, sells) \in Stores
BY FiniteOrders DEF Covered, Stores

LEMMA EmptyStoreType == EmptyStore \in Stores
BY DEF EmptyStore, Stores

LEMMA OpenSellsType == ASSUME NEW book PROVE OpenSells(book) \in SUBSET Orders
BY DEF OpenSells, Orders

DeskTypes == [doing : {"nothing", "sending", "flags", "counting", "replacing"},
              order : SUBSET Orders, source : SUBSET SellOrders, snapshot : SUBSET Stores]

\* What a desk may become, and what DesksHold asks of it.
HandsFull(k) == /\ k.doing # "nothing" => k.snapshot # {}
                /\ k.doing \in {"sending", "counting", "replacing"} => k.order # {}

LEMMA DeskValues ==
    ASSUME TypeOK
    PROVE  /\ Idle \in DeskTypes /\ HandsFull(Idle) /\ Idle.doing = "nothing"
           /\ \A doing \in {"sending", "counting", "replacing"}, S \in SUBSET Orders :
                 /\ Busy(doing, S) \in DeskTypes
                 /\ S # {} => HandsFull(Busy(doing, S))
                 /\ \A o \in SellOrders : [Busy(doing, S) EXCEPT !.source = {o}] \in DeskTypes
                 /\ \A o : S # {} => HandsFull([Busy(doing, S) EXCEPT !.source = {o}])
           /\ \A snapshot \in Stores : Flagging(snapshot) \in DeskTypes /\ HandsFull(Flagging(snapshot))
<1>1. store \in Stores
  BY DEF TypeOK
<1>2. Idle \in DeskTypes /\ HandsFull(Idle) /\ Idle.doing = "nothing"
  BY DEF Idle, DeskTypes, HandsFull
<1>3. \A doing \in {"sending", "counting", "replacing"}, S \in SUBSET Orders :
                 /\ Busy(doing, S) \in DeskTypes
                 /\ S # {} => HandsFull(Busy(doing, S))
                 /\ \A o \in SellOrders : [Busy(doing, S) EXCEPT !.source = {o}] \in DeskTypes
                 /\ \A o : S # {} => HandsFull([Busy(doing, S) EXCEPT !.source = {o}])
  BY <1>1 DEF Busy, DeskTypes, HandsFull
<1>4. ASSUME NEW snapshot \in Stores
      PROVE  Flagging(snapshot) \in DeskTypes /\ HandsFull(Flagging(snapshot))
  <2>1. [EmptyStore EXCEPT !.balance = snapshot.balance] \in Stores
    BY EmptyStoreType DEF Stores
  <2> DEFINE left == [EmptyStore EXCEPT !.balance = snapshot.balance]
  <2>2. Flagging(snapshot) = [Idle EXCEPT !.doing = "flags", !.snapshot = {left}]
    BY DEF Flagging
  <2> HIDE DEF left
  <2>4. Flagging(snapshot) = [doing |-> "flags", order |-> {}, source |-> {}, snapshot |-> {left}]
    BY <2>2 DEF Idle
  <2>5. left \in Stores
    BY <2>1 DEF left
  <2>6. QED BY <2>4, <2>5 DEF DeskTypes, HandsFull
<1>5. QED BY <1>2, <1>3, <1>4

\* A step that gives one desk such a value keeps the desks.
LEMMA DeskStep ==
    ASSUME TypeOK, DesksHold, NEW d \in Desks, NEW k \in DeskTypes, HandsFull(k),
           desk' = [desk EXCEPT ![d] = k]
    PROVE  desk' \in [Desks -> DeskTypes] /\ DesksHold'
<1>1. desk \in [Desks -> DeskTypes]
  BY DEF TypeOK, DeskTypes
<1>2. desk' \in [Desks -> DeskTypes]
  BY <1>1
<1>3. \A e \in Desks : desk'[e] = IF e = d THEN k ELSE desk[e]
  BY <1>1
<1>4. /\ k.doing # "nothing" => k.snapshot # {}
      /\ k.doing \in {"sending", "counting", "replacing"} => k.order # {}
  BY DEF HandsFull
<1>5. \A e \in Desks :
        /\ desk'[e].doing # "nothing" => desk'[e].snapshot # {}
        /\ desk'[e].doing \in {"sending", "counting", "replacing"} => desk'[e].order # {}
  <2> TAKE e \in Desks
  <2>1. CASE e = d
    BY <2>1, <1>3, <1>4
  <2>2. CASE e # d
    BY <2>2, <1>3 DEF DesksHold
  <2>3. QED BY <2>1, <2>2
<1>6. DesksHold'
  BY <1>5 DEF DesksHold
<1>7. QED BY <1>2, <1>6

LEMMA OnDesk ==
    ASSUME TypeOK, DesksHold, NEW d \in Desks, desk[d].doing # "nothing"
    PROVE  /\ SnapshotOf(d) \in Stores
           /\ desk[d].doing \in {"sending", "counting", "replacing"} => OrderOf(d) \in Orders
<1>1. desk[d].snapshot \in SUBSET Stores /\ desk[d].snapshot # {} /\ desk[d].order \in SUBSET Orders
  BY DEF TypeOK, DesksHold
<1>2. SnapshotOf(d) \in desk[d].snapshot
  BY <1>1 DEF SnapshotOf
<1>3. desk[d].order # {} => OrderOf(d) \in desk[d].order
  BY DEF OrderOf
<1>4. QED BY <1>1, <1>2, <1>3 DEF DesksHold
----------------------------------------------------------------------------
(* Every step keeps types, desks and shares. *)

Typed == TypeOK /\ DesksHold /\ Funded

LEMMA DeskTypeOK == desk \in [Desks -> DeskTypes] => desk \in [Desks ->
                          [doing : {"nothing", "sending", "flags", "counting", "replacing"},
                           order : SUBSET Orders, source : SUBSET SellOrders,
                           snapshot : SUBSET Stores]]
BY DEF DeskTypes

LEMMA InitTyped == Init => Typed /\ CalmInv
<1> SUFFICES ASSUME Init PROVE Typed /\ CalmInv
  OBVIOUS
<1>1. PICK agenda \in Agendas :
        venue = [o \in Orders |-> IF o \in agenda.todo THEN "unsent"
                                  ELSE IF o \in agenda.past THEN "confirmed" ELSE "closed"]
  BY DEF Init
<1>2. venue \in Venues
  BY <1>1 DEF Venues
<1>3. Executed(venue) \cap SellOrders = {}
  BY <1>1, AgendasAssumption, OrdersAssumption DEF Executed
<1>4. VenueShares(venue) \in Nat
  <2>1. Cardinality(Executed(venue) \cap SellOrders) = 0
    BY <1>3, FS_EmptySet
  <2>2. Cardinality(Executed(venue) \cap BuyOrders) \in Nat
    BY <1>2, ExecutedType, FiniteOrders
  <2>3. QED BY <2>1, <2>2, AmountsAssumption DEF VenueShares
<1>5. /\ frames \in Seq(Frames) /\ Len(frames) <= FrameLimit
      /\ lane \in Seq(SUBSET BuyOrders)
  BY FrameLimitAssumption DEF Init
<1>6. store \in Stores
  BY EmptyStoreType DEF Init
<1>7. /\ open \in [Orders -> {"none", "live", "matched", "traded"}]
      /\ desk \in [Desks -> [doing : {"nothing", "sending", "flags", "counting", "replacing"},
                           order : SUBSET Orders, source : SUBSET SellOrders,
                           snapshot : SUBSET Stores]]
  BY DEF Init, Idle
<1>8. poll \in [running : BOOLEAN, seen : SUBSET Views] /\ calm = "no"
  BY DEF Init, NoPoll
<1>9. TypeOK
  BY <1>2, <1>5, <1>6, <1>7, <1>8 DEF TypeOK
<1>10. DesksHold
  BY DEF DesksHold, Init, Idle
<1>11. Funded
  BY <1>4 DEF Funded
<1>12. CalmInv
  BY <1>8 DEF CalmInv
<1>13. QED BY <1>9, <1>10, <1>11, <1>12 DEF Typed

LEMMA VenueTyped ==
    ASSUME Typed, NEW o \in Orders,
           Match(o) \/ Settle(o) \/ Rest(o) \/ Refuse(o) \/ CloseResting(o)
    PROVE  Typed'
<1>1. VenueShares(venue') \in Nat
  BY VenueFunded DEF Typed
<1>2. PICK fate \in Fates : Become(o, fate)
  BY DEF Match, Settle, Rest, Refuse, CloseResting, Fates
<1>3. venue' \in Venues /\ poll' \in [running : BOOLEAN, seen : SUBSET Views]
  BY <1>1, <1>2, BecomeType DEF Typed
<1>4. frames' \in Seq(Frames) /\ Len(frames') <= FrameLimit
  <2>0. TypeOK
    BY DEF Typed
  <2>1. CASE Match(o)
    BY <2>0, <2>1, ReportType, FrameTypes DEF Match, Report
  <2>2. CASE Settle(o)
    <3>1. PICK status \in {"confirmed", "failed"} : Report(<<TradeFrame(o, status)>>)
      BY <2>2 DEF Settle
    <3>2. QED BY <2>0, <3>1, ReportType, FrameTypes DEF Report
  <2>3. CASE Rest(o)
    BY <2>0, <2>3, ReportType, FrameTypes DEF Rest, Report
  <2>4. CASE CloseResting(o)
    BY <2>0, <2>4, ReportType, FrameTypes DEF CloseResting, Report
  <2>5. CASE Refuse(o)
    BY <2>0, <2>5 DEF Refuse, TypeOK
  <2>6. QED BY <2>1, <2>2, <2>3, <2>4, <2>5
<1>5. UNCHANGED <<lane, store, open, desk>> /\ calm' = "no"
  BY DEF Match, Settle, Rest, Refuse, CloseResting
<1>6. TypeOK'
  BY <1>3, <1>4, <1>5 DEF Typed, TypeOK
<1>7. DesksHold' /\ Funded'
  BY <1>1, <1>5 DEF Typed, DesksHold, Funded
<1>8. QED BY <1>6, <1>7 DEF Typed

\* An order goes out: nothing is executed by that.
LEMMA SendTyped ==
    ASSUME Typed, NEW o \in Orders, venue[o] = "unsent", Become(o, "sent")
    PROVE  venue' \in Venues /\ Funded' /\ poll' \in [running : BOOLEAN, seen : SUBSET Views]
<1>1. venue' = [venue EXCEPT ![o] = "sent"] /\ o \notin Executed(venue)
  BY DEF Become, Executed
<1>2. VenueShares(venue') = VenueShares(venue)
  BY <1>1, BecomeShares DEF Typed, Fates
<1>3. VenueShares(venue') \in Nat
  BY <1>2 DEF Typed, Funded
<1>4. QED BY <1>3, BecomeType DEF Typed, Fates, Funded

LEMMA SendingTyped ==
    ASSUME Typed,
           \/ \E d \in Desks, o \in Orders : Send(d, o)
           \/ \E o, p \in SellOrders : SendReplacement(o, p)
    PROVE  Typed' /\ calm' = "no"
<1>0. TypeOK /\ DesksHold
  BY DEF Typed
<1>1. CASE \E d \in Desks, o \in Orders : Send(d, o)
  <2>1. PICK d \in Desks, o \in Orders : Send(d, o)
    BY <1>1
  <2>2. venue' \in Venues /\ Funded' /\ poll' \in [running : BOOLEAN, seen : SUBSET Views]
    BY <2>1, SendTyped DEF Send
  <2>3. Busy("sending", {o}) \in DeskTypes /\ HandsFull(Busy("sending", {o}))
    BY <1>0, DeskValues
  <2>4. desk' \in [Desks -> DeskTypes] /\ DesksHold'
    BY <1>0, <2>1, <2>3, DeskStep DEF Send
  <2>5. QED BY <1>0, <2>1, <2>2, <2>4 DEF Send, Typed, TypeOK, DeskTypes
<1>2. CASE \E o, p \in SellOrders : SendReplacement(o, p)
  <2>1. PICK o \in SellOrders, p \in SellOrders : SendReplacement(o, p)
    BY <1>2
  <2>2. p \in Orders
    BY DEF Orders
  <2>3. venue' \in Venues /\ Funded' /\ poll' \in [running : BOOLEAN, seen : SUBSET Views]
    BY <2>1, <2>2, SendTyped DEF SendReplacement
  <2>4. /\ [Busy("replacing", {p}) EXCEPT !.source = {o}] \in DeskTypes
        /\ HandsFull([Busy("replacing", {p}) EXCEPT !.source = {o}])
    BY <1>0, <2>2, DeskValues
  <2>5. desk' \in [Desks -> DeskTypes] /\ DesksHold'
    BY <1>0, <2>1, <2>4, DeskStep DEF SendReplacement, Desks
  <2>6. QED BY <1>0, <2>1, <2>3, <2>5 DEF SendReplacement, Typed, TypeOK, DeskTypes
<1>3. QED BY <1>1, <1>2

LEMMA AnswerTyped ==
    ASSUME Typed, NEW d \in Desks,
           AnswerBuy(d) \/ AnswerSell(d) \/ AnswerExit(d) \/ ApplyFlags(d)
    PROVE  Typed' /\ calm' = "no"
<1>0. TypeOK /\ DesksHold /\ store \in Stores
  BY DEF Typed, TypeOK
<1>1. SnapshotOf(d) \in Stores
  BY <1>0, OnDesk DEF AnswerBuy, AnswerSell, AnswerExit, ApplyFlags
<1>2. \A n \in Nat : BuyApplied(store, SnapshotOf(d), n) \in Stores
  BY <1>0, <1>1, StoreTypes
<1>3. \A t \in Stores : BalanceRestored(t, SnapshotOf(d)) \in Stores
  BY <1>1, StoreTypes
<1>4. /\ Idle \in DeskTypes /\ HandsFull(Idle)
      /\ Flagging(SnapshotOf(d)) \in DeskTypes /\ HandsFull(Flagging(SnapshotOf(d)))
  BY <1>0, <1>1, DeskValues
<1>5. CASE AnswerBuy(d)
  <2>1. \E answer \in Answers(OrderOf(d)) :
          store' = CASE answer = "filled" -> BuyApplied(store, SnapshotOf(d), 1)
                     [] answer = "no_fill" -> BuyApplied(store, SnapshotOf(d), 0)
                     [] OTHER -> store
    BY <1>5 DEF AnswerBuy
  <2>5. store' \in Stores
    BY <1>0, <1>2, <2>1
  <2>6. desk' \in [Desks -> DeskTypes] /\ DesksHold'
    BY <1>0, <1>4, <1>5, DeskStep DEF AnswerBuy
  <2>7. QED BY <1>5, <2>5, <2>6 DEF AnswerBuy, Typed, TypeOK, DeskTypes, Funded
<1>6. CASE AnswerSell(d)
  <2>1. PICK answer \in Answers(OrderOf(d)) :
          /\ store' = BalanceRestored(
               CASE answer = "live" -> SellApplied(store, SnapshotOf(d), OrderOf(d), 1)
                 [] answer = "filled" -> SellApplied(store, SnapshotOf(d), OrderOf(d), 0)
                 [] OTHER -> store, SnapshotOf(d))
          /\ open' \in {open, [open EXCEPT ![OrderOf(d)] = "live"],
                               [open EXCEPT ![OrderOf(d)] = "none"]}
    BY <1>6 DEF AnswerSell
  <2>2. \A n \in {0, 1} : SellApplied(store, SnapshotOf(d), OrderOf(d), n) \in Stores
    BY <1>0, <1>1, SellAppliedType
  <2>3. store' \in Stores
    BY <1>0, <1>3, <2>1, <2>2
  <2>4. open' \in [Orders -> {"none", "live", "matched", "traded"}]
    BY <1>0, <2>1 DEF TypeOK
  <2>5. desk' \in [Desks -> DeskTypes] /\ DesksHold'
    BY <1>0, <1>4, <1>6, DeskStep DEF AnswerSell
  <2>6. QED BY <1>6, <2>3, <2>4, <2>5 DEF AnswerSell, Typed, TypeOK, DeskTypes, Funded
<1>7. CASE ApplyFlags(d)
  <2>1. store' \in Stores
    BY <1>0, <1>3, <1>7 DEF ApplyFlags
  <2>2. desk' \in [Desks -> DeskTypes] /\ DesksHold'
    BY <1>0, <1>4, <1>7, DeskStep DEF ApplyFlags
  <2>3. QED BY <1>7, <2>1, <2>2 DEF ApplyFlags, Typed, TypeOK, DeskTypes, Funded
<1>8. CASE AnswerExit(d)
  <2>1. desk' \in [Desks -> DeskTypes] /\ DesksHold'
    BY <1>0, <1>4, <1>8, DeskStep DEF AnswerExit
  <2>2. QED BY <1>0, <1>8, <2>1 DEF AnswerExit, Typed, TypeOK, DeskTypes, Funded
<1>9. QED BY <1>5, <1>6, <1>7, <1>8
LEMMA ReplacementTyped ==
    ASSUME Typed, AnswerReplacement
    PROVE  Typed' /\ calm' = "no"
<1>0. TypeOK /\ DesksHold /\ store \in Stores
  BY DEF Typed, TypeOK
<1>1. "operator" \in Desks /\ desk["operator"].doing = "replacing"
  BY DEF Desks, AnswerReplacement
<1>2. OrderOf("operator") \in Orders
  BY <1>0, <1>1, OnDesk
<1> DEFINE p == OrderOf("operator")
           o == CHOOSE source \in desk["operator"].source : TRUE
           Replaced(answer) == [open EXCEPT ![o] = "none", ![p] =
                                  CASE answer = "live" -> "live"
                                    [] answer = "filled" -> "matched"
                                    [] OTHER -> @]
<1>3. PICK answer \in Answers(p) :
         IF answer = "rejected" THEN UNCHANGED <<store, open>>
         ELSE /\ open' = Replaced(answer)
              /\ store' = Covered(store, OpenSells(Replaced(answer)))
  BY DEF AnswerReplacement
<1>4. Replaced(answer) \in [Orders -> {"none", "live", "matched", "traded"}]
  <2>1. open \in [Orders -> {"none", "live", "matched", "traded"}]
    BY <1>0 DEF TypeOK
  <2> HIDE DEF o, p
  <2>2. CASE answer = "live"
    BY <2>1, <2>2
  <2>3. CASE answer = "filled"
    BY <2>1, <2>3
  <2>4. CASE answer \notin {"live", "filled"}
    <3>1. p \in Orders
      BY <1>2 DEF p
    <3>2. QED BY <2>1, <2>4, <3>1
  <2>5. QED BY <2>2, <2>3, <2>4
<1>5. Covered(store, OpenSells(Replaced(answer))) \in Stores
  BY <1>0, OpenSellsType, CoveredType
<1> HIDE DEF o, p, Replaced
<1>6. store' \in Stores /\ open' \in [Orders -> {"none", "live", "matched", "traded"}]
  BY <1>0, <1>3, <1>4, <1>5 DEF TypeOK
<1>7. Idle \in DeskTypes /\ HandsFull(Idle)
  BY <1>0, DeskValues
<1>8. desk' \in [Desks -> DeskTypes] /\ DesksHold'
  BY <1>0, <1>1, <1>7, DeskStep DEF AnswerReplacement
<1>9. QED BY <1>6, <1>8 DEF AnswerReplacement, Typed, TypeOK, DeskTypes, Funded

LEMMA FrameTyped ==
    ASSUME Typed, ProcessFrame \/ Resubscribe
    PROVE  Typed' /\ calm' = "no"
<1>0. /\ TypeOK /\ DesksHold /\ store \in Stores
      /\ frames \in Seq(Frames) /\ Len(frames) <= FrameLimit /\ frames # <<>>
  BY DEF Typed, TypeOK, ProcessFrame, Resubscribe
<1>1. CASE ProcessFrame
  <2> DEFINE f == Head(frames)
             gone == f.status \in {"cancelled", "failed"}
  <2>1. f \in Frames /\ frames' \in Seq(Frames) /\ Len(frames') <= FrameLimit
    BY <1>0, <1>1, FrameLimitAssumption DEF ProcessFrame
  <2>2. f.order \in Orders /\ (f.kind = "order" /\ ~gone => f.status \in {"live", "matched"})
    BY <2>1 DEF Frames
  <2>3. /\ open' \in {[open EXCEPT ![f.order] = IF gone THEN "none" ELSE f.status],
                       [open EXCEPT ![f.order] = IF gone THEN "none" ELSE "traded"]}
        /\ (f.kind = "order" => open' = [open EXCEPT ![f.order] = IF gone THEN "none" ELSE f.status])
        /\ (f.kind # "order" => open' = [open EXCEPT ![f.order] = IF gone THEN "none" ELSE "traded"])
        /\ \E projected : lane' = Append(lane, Event(f.order, f.status, projected))
        /\ store' \in {store, FillApplied(store, f.order)}
    BY <1>1 DEF ProcessFrame
  <2> HIDE DEF f
  <2>4. open' \in [Orders -> {"none", "live", "matched", "traded"}]
    <3>1. open \in [Orders -> {"none", "live", "matched", "traded"}]
      BY <1>0 DEF TypeOK
    <3>2. CASE f.kind = "order"
      BY <2>2, <2>3, <3>1, <3>2
    <3>3. CASE f.kind # "order"
      BY <2>2, <2>3, <3>1, <3>3
    <3>4. QED BY <3>2, <3>3
  <2>5. lane' \in Seq(SUBSET BuyOrders)
    <3>1. \A projected : Event(f.order, f.status, projected) \in SUBSET BuyOrders
      BY DEF Event
    <3>2. QED BY <1>0, <2>3, <3>1 DEF TypeOK
  <2>6. store' \in Stores
    <3>1. \A o : FillApplied(store, o) \in Stores
      BY <1>0, StoreTypes
    <3>2. FillApplied(store, f.order) \in Stores
      BY <3>1
    <3>3. QED BY <1>0, <2>3, <3>2
  <2>7. QED BY <1>0, <1>1, <2>1, <2>4, <2>5, <2>6 DEF ProcessFrame, Typed, TypeOK, DesksHold, Funded
<1>2. CASE Resubscribe
  BY <1>0, <1>2, FrameLimitAssumption DEF Resubscribe, Typed, TypeOK, DesksHold, Funded
<1>3. QED BY <1>1, <1>2

LEMMA EventTyped ==
    ASSUME Typed, TakeEvent \/ CountEvent
    PROVE  Typed' /\ calm' = "no"
<1>0. TypeOK /\ DesksHold /\ store \in Stores /\ "worker" \in Desks
  BY DEF Typed, TypeOK, Desks
<1>1. CASE TakeEvent
  <2>1. lane \in Seq(SUBSET BuyOrders) /\ lane # <<>>
    BY <1>0, <1>1 DEF TakeEvent, TypeOK
  <2>2. Head(lane) \in SUBSET BuyOrders /\ lane' \in Seq(SUBSET BuyOrders)
    BY <1>1, <2>1 DEF TakeEvent
  <2>3. Head(lane) \in SUBSET Orders
    BY <2>2 DEF Orders
  <2> DEFINE k == IF Head(lane) = {} THEN Flagging(store) ELSE Busy("counting", Head(lane))
  <2>4. k \in DeskTypes /\ HandsFull(k)
    BY <1>0, <2>3, DeskValues
  <2>5. desk' = [desk EXCEPT !["worker"] = k]
    BY <1>1 DEF TakeEvent
  <2> HIDE DEF k
  <2>6. desk' \in [Desks -> DeskTypes] /\ DesksHold'
    BY <1>0, <2>4, <2>5, DeskStep
  <2>7. QED BY <1>0, <1>1, <2>2, <2>6 DEF TakeEvent, Typed, TypeOK, DeskTypes, Funded
<1>2. CASE CountEvent
  <2>1. SnapshotOf("worker") \in Stores
    BY <1>0, <1>2, OnDesk DEF CountEvent
  <2>2. store' \in Stores
    <3>1. store' = BuyApplied(store, SnapshotOf("worker"), 1)
      BY <1>2 DEF CountEvent
    <3>2. \A n \in Nat : BuyApplied(store, SnapshotOf("worker"), n) \in Stores
      BY <1>0, <2>1, StoreTypes
    <3>3. QED BY <3>1, <3>2
  <2>3. Flagging(SnapshotOf("worker")) \in DeskTypes /\ HandsFull(Flagging(SnapshotOf("worker")))
    BY <1>0, <2>1, DeskValues
  <2>4. desk' \in [Desks -> DeskTypes] /\ DesksHold'
    BY <1>0, <1>2, <2>3, DeskStep DEF CountEvent
  <2>5. QED BY <1>2, <2>2, <2>4 DEF CountEvent, Typed, TypeOK, DeskTypes, Funded
<1>3. QED BY <1>1, <1>2

----------------------------------------------------------------------------
(* The poll. *)

LEMMA StartPollInv ==
    ASSUME Typed, CalmInv, StartPoll
    PROVE  Typed' /\ CalmInv'
<1>1. View(venue) \in Views
  BY ViewType DEF Typed, Funded
<1>2. /\ poll' = [running |-> TRUE, seen |-> {View(venue)}] /\ ~poll.running
      /\ calm' = IF calm = "no" /\ Quiet THEN "polling" ELSE calm
      /\ UNCHANGED <<venue, frames, lane, store, open, desk>>
  BY DEF StartPoll
<1>3. Typed'
  BY <1>1, <1>2 DEF Typed, TypeOK, DesksHold, Funded
<1>4. calm \in {"no", "polling", "yes"} /\ calm # "polling"
  BY <1>2 DEF Typed, TypeOK, CalmInv
<1>5. calm' = "polling" => Quiet
  BY <1>2, <1>4
<1>6. calm' = "yes" => Quiet /\ Agrees /\ Written
  BY <1>2, <1>4 DEF CalmInv
<1>7. /\ Quiet => Quiet'
      /\ Agrees => Agrees'
      /\ Written => Written'
  BY <1>2 DEF Quiet, Agrees, Written, Listed, Resting, VenueShares, VenueCash, Executed
<1>8. poll'.running /\ poll'.seen = {View(venue')}
  BY <1>2
<1>9. QED BY <1>3, <1>5, <1>6, <1>7, <1>8 DEF CalmInv

\* What a poll writes when every part is answered, or when what is there is right.
LEMMA PollWrites ==
    ASSUME Typed, NEW answered \in SUBSET Parts,
           \/ answered = Parts
           \/ Agrees /\ Written,
           NEW positioned, NEW listed, NEW covered,
           positioned = IF "positions" \in answered
                        THEN Positioned(store, VenueShares(venue)) ELSE store,
           listed = IF "orders" \in answered THEN Listed(Resting(venue)) ELSE open,
           covered = IF {"positions", "orders"} \cap answered = {} THEN positioned
                     ELSE Covered(positioned, OpenSells(listed)),
           open' = listed,
           store' = IF "balance" \in answered
                    THEN [covered EXCEPT !.balance = VenueCash(venue)] ELSE covered,
           venue' = venue
    PROVE  Agrees' /\ Written'
<1>0. TypeOK /\ store \in Stores /\ VenueShares(venue) \in Nat /\ VenueCash(venue) \in Int
  BY ExecutedType DEF Typed, Funded, TypeOK
<1> DEFINE sells == Resting(venue) \cap SellOrders
<1>1. listed = Listed(Resting(venue))
  BY DEF Written, Parts
<1>2. OpenSells(listed) = sells /\ {o \in Orders : listed[o] # "none"} = Resting(venue)
  BY <1>1 DEF OpenSells, Listed, Resting, Orders
<1>3. positioned \in Stores
  BY <1>0, StoreTypes
<1>4. positioned.shares = VenueShares(venue)
  <2>1. CASE "positions" \in answered
    BY <1>0, <2>1 DEF Positioned, Stores
  <2>2. CASE "positions" \notin answered
    BY <2>2 DEF Agrees, Parts
  <2>3. QED BY <2>1, <2>2
<1>5. "positions" \in answered => positioned.openSell = 0
  BY <1>0 DEF Positioned, Stores
<1>6. answered # Parts => positioned.balance = VenueCash(venue)
  <2>1. CASE "positions" \in answered
    BY <1>0, <2>1 DEF Positioned, Stores, Agrees
  <2>2. CASE "positions" \notin answered
    BY <2>2 DEF Agrees
  <2>3. QED BY <2>1, <2>2
<1>7. covered \in Stores
  <2>1. OpenSells(listed) \in SUBSET Orders
    BY OpenSellsType
  <2>2. QED BY <1>3, <2>1, CoveredType
<1>8. "positions" \notin answered => positioned.openSell = Cardinality(sells)
  BY DEF Agrees, Parts
<1>9. Cardinality({}) = 0
  BY FS_EmptySet
<1> HIDE DEF sells
<1>10. covered.openSell = Cardinality(sells)
  <2>1. CASE {"positions", "orders"} \cap answered = {}
    BY <1>8, <2>1
  <2>2. CASE {"positions", "orders"} \cap answered # {}
    <3>1. covered = Covered(positioned, sells)
      BY <1>2, <2>2
    <3>2. CASE ~positioned.held /\ sells = {}
      BY <1>5, <1>8, <1>9, <3>1, <3>2 DEF Covered
    <3>3. CASE ~(~positioned.held /\ sells = {})
      BY <1>3, <3>1, <3>3 DEF Covered, Stores
    <3>4. QED BY <3>2, <3>3
  <2>3. QED BY <2>1, <2>2
<1>11. covered.shares = positioned.shares /\ covered.balance = positioned.balance
  <2>1. CASE {"positions", "orders"} \cap answered = {}
    BY <2>1
  <2>2. CASE {"positions", "orders"} \cap answered # {}
    BY <1>2, <1>3, <2>2 DEF Covered, Stores
  <2>3. QED BY <2>1, <2>2
<1>12. store'.shares = VenueShares(venue) /\ store'.openSell = Cardinality(sells)
  BY <1>4, <1>7, <1>10, <1>11 DEF Stores
<1>13. store'.balance = VenueCash(venue)
  <2>1. CASE "balance" \in answered
    BY <1>7, <2>1 DEF Stores
  <2>2. CASE "balance" \notin answered
    BY <1>6, <1>11, <2>2 DEF Parts
  <2>3. QED BY <2>1, <2>2
<1>14. Resting(venue') = Resting(venue) /\ VenueShares(venue') = VenueShares(venue)
       /\ VenueCash(venue') = VenueCash(venue)
  OBVIOUS
<1>15. Written'
  BY <1>1, <1>14 DEF Written, Listed
<1>16. QED BY <1>2, <1>12, <1>13, <1>14, <1>15 DEF Agrees, sells

LEMMA ApplyPollInv ==
    ASSUME Typed, CalmInv, NEW answered \in SUBSET Parts, ApplyPoll(answered)
    PROVE  Typed' /\ CalmInv'
<1>0. /\ TypeOK /\ DesksHold /\ Funded /\ store \in Stores
      /\ open \in [Orders -> {"none", "live", "matched", "traded"}]
      /\ poll \in [running : BOOLEAN, seen : SUBSET Views]
  BY DEF Typed, TypeOK
<1>1. PICK shares \in {v.shares : v \in poll.seen}, resting \in {v.resting : v \in poll.seen},
           cash \in {v.cash : v \in poll.seen} :
          LET positioned == IF "positions" \in answered THEN Positioned(store, shares) ELSE store
              listed == IF "orders" \in answered THEN Listed(resting) ELSE open
              covered == IF {"positions", "orders"} \cap answered = {} THEN positioned
                         ELSE Covered(positioned, OpenSells(listed))
          IN  /\ open' = listed
              /\ store' = IF "balance" \in answered
                          THEN [covered EXCEPT !.balance = cash] ELSE covered
  BY DEF ApplyPoll
<1> DEFINE positioned == IF "positions" \in answered THEN Positioned(store, shares) ELSE store
           listed == IF "orders" \in answered THEN Listed(resting) ELSE open
           covered == IF {"positions", "orders"} \cap answered = {} THEN positioned
                         ELSE Covered(positioned, OpenSells(listed))
<1>2. /\ open' = listed
      /\ store' = IF "balance" \in answered THEN [covered EXCEPT !.balance = cash] ELSE covered
  BY <1>1
<1>3. /\ poll' = NoPoll /\ UNCHANGED <<venue, frames, lane, desk>> /\ poll.running
      /\ calm' = IF calm = "polling" THEN (IF answered = Parts THEN "yes" ELSE "no") ELSE calm
  BY DEF ApplyPoll
<1>4. shares \in Nat /\ cash \in Int /\ resting \in SUBSET Orders
  BY <1>0 DEF Views
<1>5. Typed'
  <2>1. positioned \in Stores
    BY <1>0, <1>4, StoreTypes
  <2>2. covered \in Stores
    BY <2>1, OpenSellsType, CoveredType
  <2>3. store' \in Stores
    <3> HIDE DEF covered
    <3>1. [covered EXCEPT !.balance = cash] \in Stores
      BY <1>4, <2>2, StoreTypes
    <3>2. QED BY <1>2, <2>2, <3>1
  <2>4. open' \in [Orders -> {"none", "live", "matched", "traded"}]
    BY <1>0, <1>2 DEF Listed
  <2>5. QED
    BY <1>0, <1>3, <2>3, <2>4 DEF NoPoll, Typed, TypeOK, DesksHold, Funded
<1>6. ASSUME calm' = "yes" PROVE Quiet' /\ Agrees' /\ Written' /\ ~poll'.running
  <2>1. \/ calm = "polling" /\ answered = Parts
        \/ calm = "yes"
    BY <1>3, <1>6
  <2>2. Quiet /\ poll.seen = {View(venue)} /\ (answered = Parts \/ (Agrees /\ Written))
    BY <1>3, <2>1 DEF CalmInv
  <2>3. shares = VenueShares(venue) /\ resting = Resting(venue) /\ cash = VenueCash(venue)
    BY <2>2, ExecutedType
  <2>4. /\ positioned = IF "positions" \in answered
                          THEN Positioned(store, VenueShares(venue)) ELSE store
        /\ listed = IF "orders" \in answered THEN Listed(Resting(venue)) ELSE open
        /\ store' = IF "balance" \in answered
                      THEN [covered EXCEPT !.balance = VenueCash(venue)] ELSE covered
    BY <1>2, <2>3
  <2>5. covered = IF {"positions", "orders"} \cap answered = {} THEN positioned
                  ELSE Covered(positioned, OpenSells(listed))
    OBVIOUS
  <2> HIDE DEF positioned, listed, covered
  <2>6. Agrees' /\ Written'
    BY <1>2, <1>3, <2>2, <2>4, <2>5, PollWrites
  <2>7. Quiet' /\ ~poll'.running
    BY <1>3, <2>2 DEF Quiet, NoPoll
  <2>8. QED BY <2>6, <2>7
<1>7. calm' # "polling"
  BY <1>3
<1>8. QED BY <1>5, <1>6, <1>7 DEF CalmInv

----------------------------------------------------------------------------
(* The invariant is inductive. *)

LEMMA StepInv == Inv /\ [Next]_vars => Inv'
<1> SUFFICES ASSUME Inv, [Next]_vars PROVE Inv'
  OBVIOUS
<1>0. Typed /\ CalmInv
  BY DEF Inv, Typed
<1>1. ASSUME Typed', calm' = "no" PROVE Inv'
  BY <1>1 DEF Inv, Typed, CalmInv
<1>2. CASE Venue
  <2>1. PICK o \in Orders : Match(o) \/ Settle(o) \/ Rest(o) \/ Refuse(o) \/ CloseResting(o)
    BY <1>2 DEF Venue
  <2>2. calm' = "no"
    BY <2>1 DEF Match, Settle, Rest, Refuse, CloseResting
  <2>3. QED BY <1>0, <1>1, <2>1, <2>2, VenueTyped
<1>3. CASE Deskwork
  BY <1>0, <1>1, <1>3, AnswerTyped, ReplacementTyped, EventTyped DEF Deskwork
<1>4. CASE \/ \E d \in Desks, o \in Orders : Send(d, o)
           \/ \E o, p \in SellOrders : SendReplacement(o, p)
  BY <1>0, <1>1, <1>4, SendingTyped
<1>5. CASE ProcessFrame \/ Resubscribe
  BY <1>0, <1>1, <1>5, FrameTyped
<1>6. CASE StartPoll
  BY <1>0, <1>6, StartPollInv DEF Inv, Typed
<1>7. CASE \E answered \in SUBSET Parts : ApplyPoll(answered)
  BY <1>0, <1>7, ApplyPollInv DEF Inv, Typed
<1>8. CASE UNCHANGED vars
  <2>1. Typed'
    BY <1>0, <1>8 DEF vars, Typed, TypeOK, DesksHold, Funded
  <2>2. CalmInv'
    BY <1>0, <1>8 DEF vars, CalmInv, Quiet, Agrees, Written, Listed
  <2>3. QED BY <2>1, <2>2 DEF Inv, Typed
<1>9. QED BY <1>2, <1>3, <1>4, <1>5, <1>6, <1>7, <1>8 DEF Next

LEMMA AlwaysInv == Spec => []Inv
<1>1. Init => Inv
  BY InitTyped DEF Inv, Typed
<1>2. QED BY <1>1, StepInv, PTL DEF Spec

\* Positions, orders, balances, queues and desks always hold what the code could
\* have put there; in particular no share count goes below zero.
THEOREM TypeCorrect == Spec => []TypeOK
BY AlwaysInv, PTL DEF Inv

\* Whatever the order results, the frames and the replacement made of the account
\* (order_projection.py, user_ws), refresh_account leaves it equal to the exchange
\* when nothing else moves, and it stays so until something does.
THEOREM PollSettles == Spec => []SettledAgrees
<1>1. Inv => SettledAgrees
  BY DEF Inv, CalmInv, SettledAgrees
<1>2. QED BY <1>1, AlwaysInv, PTL
=============================================================================
