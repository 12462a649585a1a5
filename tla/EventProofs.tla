----------------------------- MODULE EventProofs -----------------------------
(***************************************************************************)
(* Theorems about the event bus, the events pushed from it to onlookers    *)
(* and the outbox that events go to the database by; the three modules     *)
(* share no variable.  Of the bus, for any publishers, any capacities and  *)
(* any number of events: the types, that the queue of keys and the dict of *)
(* pending events stay in step, and that conflation of awaited events      *)
(* never loses the newest one of a key.  Of the push, for any clients,     *)
(* topics, events and lengths of the queues: the types, that losses are    *)
(* counted, and that each web socket is sent events in the order of        *)
(* publishing.  Of the outbox, for any contents, sizes and number of       *)
(* tries: the types, and that no critical event is lost.                   *)
(***************************************************************************)
EXTENDS EventBus, EventStream, LocalOutbox, SequenceTheorems, FiniteSetTheorems, TLAPS

----------------------------------------------------------------------------
(* The bus: the inductive invariant. *)

\* An event was numbered by its publisher and is of a kind of that publisher's.
Issued(e) == e.no <= sent[e.by] /\ e.kind \in KindsOf(e.by)

EventsIssued == \A e \in pending \cup mirrored : Issued(e)

\* A publish that awaits its slot: the event is its caller's last, for the trading lane,
\* and nobody else has stored one of its key meanwhile, since a key is one publisher's.
Waiting(p) ==
  blocked[p] # NoEvent =>
    /\ blocked[p].by = p /\ p \notin Operators
    /\ Issued(blocked[p])
    /\ ~IsPending(Key(blocked[p]))

WaitersKnown == \A p \in Publishers : Waiting(p)

Inv ==
  /\ TypeOK
  /\ EventsIssued
  /\ WaitersKnown
  /\ TradingAgrees
  /\ RetainedDistinct
  /\ AwaitedNotLost

Keys == {Key(e) : e \in Event}

----------------------------------------------------------------------------
(* Keys. *)

\* A key belongs to one publisher.
LEMMA KeyOfOne ==
  ASSUME NEW e \in Event, NEW f \in Event, Key(e) = Key(f),
         e.kind \in KindsOf(e.by), f.kind \in KindsOf(f.by)
  PROVE  e.by = f.by
<1>1. e.by \notin Kinds /\ f.by \notin Kinds /\ e.kind \in Kinds /\ f.kind \in Kinds
  BY NamesAssumption DEF Event
<1>2. CASE e.kind \in Merged
  <2>1. f.kind \in Merged
    BY <1>1, <1>2 DEF Key
  <2>2. e.by = Feed /\ f.by = Feed
    BY <1>2, <2>1 DEF Merged, KindsOf
  <2> QED BY <2>2
<1>3. CASE e.kind \notin Merged
  <2>1. f.kind \notin Merged
    BY <1>1, <1>3 DEF Key
  <2> QED BY <1>3, <2>1 DEF Key
<1> QED BY <1>2, <1>3

\* The events of the awaited kinds come from publishers that await.
LEMMA AwaitedKinds ==
  ASSUME NEW p \in Operators
  PROVE  KindsOf(p) = {"signal"}
BY NamesAssumption DEF KindsOf

----------------------------------------------------------------------------
(* Sequences. *)

LEMMA AppendOccurs ==
  ASSUME NEW S, NEW s \in Seq(S), NEW x \in S, NEW y
  PROVE  /\ Append(s, x) \in Seq(S) /\ Len(Append(s, x)) = Len(s) + 1
         /\ Occurs(y, Append(s, x)) <=> Occurs(y, s) \/ y = x
         /\ NoRepeats(s) /\ ~Occurs(x, s) => NoRepeats(Append(s, x))
<1>1. /\ Append(s, x) \in Seq(S) /\ Len(Append(s, x)) = Len(s) + 1 /\ Len(s) \in Nat
      /\ \A i \in 1 .. Len(s) : Append(s, x)[i] = s[i]
      /\ Append(s, x)[Len(s) + 1] = x
  OBVIOUS
<1>2. Occurs(y, Append(s, x)) => Occurs(y, s) \/ y = x
  BY <1>1 DEF Occurs
<1>3. Occurs(y, s) => Occurs(y, Append(s, x))
  BY <1>1 DEF Occurs
<1>4. y = x => Occurs(y, Append(s, x))
  BY <1>1 DEF Occurs
<1>5. ASSUME NoRepeats(s), ~Occurs(x, s)
      PROVE  NoRepeats(Append(s, x))
  BY <1>1, <1>5 DEF NoRepeats, Occurs
<1> QED BY <1>1, <1>2, <1>3, <1>4, <1>5

LEMMA TailOccurs ==
  ASSUME NEW S, NEW s \in Seq(S), s # <<>>, NoRepeats(s), NEW y
  PROVE  /\ Tail(s) \in Seq(S) /\ Len(Tail(s)) = Len(s) - 1 /\ Head(s) \in S
         /\ Occurs(Head(s), s)
         /\ Occurs(y, Tail(s)) <=> Occurs(y, s) /\ y # Head(s)
         /\ NoRepeats(Tail(s))
<1>1. /\ Tail(s) \in Seq(S) /\ Len(Tail(s)) = Len(s) - 1 /\ Head(s) \in S
      /\ \A i \in 1 .. Len(Tail(s)) : Tail(s)[i] = s[i + 1]
      /\ Len(s) \in Nat \ {0} /\ Head(s) = s[1]
  BY HeadTailProperties, EmptySeq, LenProperties
<1>2. Occurs(Head(s), s)
  BY <1>1 DEF Occurs
<1>3. Occurs(y, Tail(s)) => Occurs(y, s) /\ y # Head(s)
  BY <1>1 DEF Occurs, NoRepeats
<1>4. ASSUME Occurs(y, s), y # Head(s)
      PROVE  Occurs(y, Tail(s))
  <2>1. PICK i \in 1 .. Len(s) : s[i] = y
    BY <1>4 DEF Occurs
  <2>2. i - 1 \in 1 .. Len(Tail(s)) /\ Tail(s)[i - 1] = y
    BY <1>1, <1>4, <2>1
  <2> QED BY <2>2 DEF Occurs
<1>5. NoRepeats(Tail(s))
  BY <1>1 DEF NoRepeats
<1> QED BY <1>1, <1>2, <1>3, <1>4, <1>5

----------------------------------------------------------------------------
(* The trading lane. *)

\* What storing an event leaves: the same keys pending and that of the event.
LEMMA SetPendingKeys ==
  ASSUME NEW e \in Event, pending \subseteq Event, SetPending(e)
  PROVE  /\ pending' \subseteq Event /\ e \in pending'
         /\ \A k : IsPending(k)' <=> IsPending(k) \/ k = Key(e)
         /\ \A f \in pending' : f \in pending \/ f = e
         /\ \A f \in pending : f \in pending' \/ Key(f) = Key(e)
BY DEF SetPending, IsPending

LEMMA OverwriteKeepsLane ==
  ASSUME TypeOK, TradingAgrees, NEW e \in Event, Overwrite(e)
  PROVE  TradingAgrees' /\ keys' \in Seq(Keys) /\ pending' \subseteq Event
<1>1. /\ pending' \subseteq Event /\ keys' = keys
      /\ \A k : IsPending(k)' <=> IsPending(k)
      /\ \A f \in pending' : f \in pending \/ f = e
  BY SetPendingKeys DEF Overwrite, TypeOK
<1>2. Occurs(Key(e), keys)
  BY DEF TradingAgrees, Overwrite, IsPending
<1> QED BY <1>1, <1>2 DEF TradingAgrees, TypeOK, Keys

LEMMA EnqueueKeepsLane ==
  ASSUME TypeOK, TradingAgrees, NEW e \in Event, ~IsPending(Key(e)), Enqueue(e)
  PROVE  TradingAgrees' /\ keys' \in Seq(Keys) /\ pending' \subseteq Event
<1>1. /\ pending' \subseteq Event
      /\ \A k : IsPending(k)' <=> IsPending(k) \/ k = Key(e)
      /\ \A f \in pending' : f \in pending \/ f = e
  BY SetPendingKeys DEF Enqueue, TypeOK
<1>2. keys \in Seq(Keys) /\ Key(e) \in Keys /\ keys' = Append(keys, Key(e))
      /\ Len(keys) # TradingCapacity
  BY DEF TypeOK, Keys, Enqueue, TradingFull
<1>3. ~Occurs(Key(e), keys)
  BY DEF TradingAgrees, Occurs
<1>4. /\ keys' \in Seq(Keys) /\ Len(keys') = Len(keys) + 1
      /\ \A y : Occurs(y, keys') <=> Occurs(y, keys) \/ y = Key(e)
      /\ NoRepeats(keys')
  BY <1>2, <1>3, AppendOccurs DEF TradingAgrees
<1>5. Len(keys') <= TradingCapacity
  BY <1>2, <1>4, CapacityAssumption, LenProperties DEF TradingAgrees
<1>6. \A f \in pending' : Occurs(Key(f), keys')
  BY <1>1, <1>4 DEF TradingAgrees
<1>7. \A i \in 1 .. Len(keys') : IsPending(keys[i])'
  <2> TAKE i \in 1 .. Len(keys')
  <2>1. Occurs(keys'[i], keys')
    BY DEF Occurs
  <2>2. Occurs(keys'[i], keys) => IsPending(keys'[i])
    BY DEF Occurs, TradingAgrees
  <2> QED BY <1>1, <1>4, <2>1, <2>2
<1> QED BY <1>1, <1>4, <1>5, <1>6, <1>7 DEF TradingAgrees, NoRepeats, Occurs, IsPending

LEMMA TakeKeepsLane ==
  ASSUME TypeOK, TradingAgrees, TakeTrading
  PROVE  TradingAgrees' /\ keys' \in Seq(Keys) /\ pending' \subseteq pending
<1> DEFINE k == Head(keys)
<1>1. /\ keys \in Seq(Keys) /\ keys # <<>> /\ NoRepeats(keys) /\ keys' = Tail(keys)
      /\ pending' = pending \ {e \in pending : Key(e) = k}
  BY DEF TypeOK, Keys, TradingAgrees, TakeTrading
<1> HIDE DEF k
<1>2. /\ Tail(keys) \in Seq(Keys) /\ Len(Tail(keys)) = Len(keys) - 1
      /\ \A y : Occurs(y, Tail(keys)) <=> Occurs(y, keys) /\ y # k
      /\ NoRepeats(Tail(keys))
  BY <1>1, TailOccurs DEF k
<1>3. \A f \in pending' : Occurs(Key(f), keys')
  BY <1>1, <1>2 DEF TradingAgrees
<1>4. \A i \in 1 .. Len(keys') : IsPending(keys[i])'
  <2> TAKE i \in 1 .. Len(keys')
  <2>1. Occurs(keys'[i], keys')
    BY DEF Occurs
  <2>2. Occurs(keys'[i], keys) /\ keys'[i] # k
    BY <1>1, <1>2, <2>1
  <2>3. IsPending(keys'[i])
    BY <2>2 DEF Occurs, TradingAgrees
  <2> QED BY <1>1, <2>2, <2>3 DEF IsPending
<1>5. Len(keys') <= TradingCapacity
  BY <1>1, <1>2, CapacityAssumption, LenProperties DEF TradingAgrees
<1> QED BY <1>1, <1>2, <1>3, <1>4, <1>5 DEF TradingAgrees, NoRepeats, Occurs, IsPending

----------------------------------------------------------------------------
(* The maintenance lane. *)

LEMMA FlushKeepsRetained ==
  ASSUME TypeOK, RetainedDistinct, NEW q \in Seq(Event), Len(q) <= MaintenanceCapacity,
         Flush(q, retained)
  PROVE  RetainedDistinct' /\ upkeep' \in Seq(Event) /\ retained' \in Seq(Event)
<1> DEFINE n == Min2(Len(retained), MaintenanceCapacity - Len(q))
           moved == SubSeq(retained, 1, n)
           left == SubSeq(retained, n + 1, Len(retained))
<1>1. /\ retained \in Seq(Event) /\ Len(retained) \in Nat /\ Len(q) \in Nat
      /\ MaintenanceCapacity \in Nat
      /\ \A i \in 1 .. Len(retained) : retained[i] \in Event
  BY CapacityAssumption, LenProperties, ElementOfSeq DEF TypeOK
<1>2. n \in Nat /\ n <= Len(retained) /\ Len(q) + n <= MaintenanceCapacity
  BY <1>1 DEF Min2
<1>3. upkeep' = q \o moved /\ retained' = left
  BY DEF Flush
<1> HIDE DEF n
<1>4. moved \in Seq(Event) /\ Len(moved) = n
  BY <1>1, <1>2, SubSeqProperties
<1>5. /\ left \in Seq(Event) /\ Len(left) = Len(retained) - n
      /\ \A i \in 1 .. Len(left) : left[i] = retained[i + n]
  BY <1>1, <1>2, SubSeqProperties, Z3
<1> HIDE DEF moved, left
<1>6. upkeep' \in Seq(Event) /\ Len(upkeep') = Len(q) + n
  BY <1>3, <1>4, ConcatProperties
<1>7. Len(retained') <= RetainedCapacity
  BY <1>1, <1>2, <1>3, <1>5, CapacityAssumption DEF RetainedDistinct
<1>8. ASSUME NEW i \in 1 .. Len(left), NEW j \in 1 .. Len(left), Key(left[i]) = Key(left[j])
      PROVE  i = j
  <2>1. i + n \in 1 .. Len(retained) /\ j + n \in 1 .. Len(retained)
    BY <1>1, <1>2, <1>5
  <2>2. Key(retained[i + n]) = Key(retained[j + n])
    BY <1>5, <1>8
  <2>3. i + n = j + n
    BY <2>1, <2>2 DEF RetainedDistinct
  <2> QED BY <2>3, <1>2
<1> QED BY <1>2, <1>3, <1>5, <1>6, <1>7, <1>8 DEF RetainedDistinct

LEMMA FlushUnlessPausedKeeps ==
  ASSUME TypeOK, RetainedDistinct, NEW q \in Seq(Event), Len(q) <= MaintenanceCapacity,
         FlushUnlessPaused(q)
  PROVE  RetainedDistinct' /\ upkeep' \in Seq(Event) /\ retained' \in Seq(Event)
<1>1. CASE paused
  BY <1>1 DEF FlushUnlessPaused, RetainedDistinct, TypeOK
<1>2. CASE ~paused
  BY <1>2, FlushKeepsRetained DEF FlushUnlessPaused
<1> QED BY <1>1, <1>2

LEMMA RetainKeepsDistinct ==
  ASSUME TypeOK, RetainedDistinct, NEW e \in Event, Retain(e), UNCHANGED upkeep
  PROVE  RetainedDistinct' /\ retained' \in Seq(Event)
<1>1. /\ retained \in Seq(Event) /\ Len(retained) \in Nat
      /\ \A i \in 1 .. Len(retained) : retained[i] \in Event
      /\ RetainedCapacity \in Nat \ {0}
  BY CapacityAssumption, LenProperties, ElementOfSeq DEF TypeOK
<1>2. CASE \E i \in 1 .. Len(retained) : Key(retained[i]) = Key(e)
  <2>1. retained' = [i \in 1 .. Len(retained) |->
                       IF Key(retained[i]) = Key(e) THEN e ELSE retained[i]]
    BY <1>2 DEF Retain
  <2>2. retained' \in Seq(Event) /\ Len(retained') = Len(retained)
    BY <1>1, <2>1
  <2>3. \A i \in 1 .. Len(retained) : Key(retained'[i]) = Key(retained[i])
    BY <2>1
  <2> QED BY <2>2, <2>3 DEF RetainedDistinct
<1>3. CASE ~ \E i \in 1 .. Len(retained) : Key(retained[i]) = Key(e)
  <2> DEFINE room == IF Len(retained) >= RetainedCapacity THEN Tail(retained) ELSE retained
  <2>1. retained' = Append(room, e)
    BY <1>3 DEF Retain
  <2>2. /\ room \in Seq(Event) /\ Len(room) \in Nat /\ Len(room) < RetainedCapacity
        /\ \A i, j \in 1 .. Len(room) : Key(room[i]) = Key(room[j]) => i = j
        /\ \A i \in 1 .. Len(room) : Key(room[i]) # Key(e)
    <3>1. CASE Len(retained) >= RetainedCapacity
      <4>1. /\ retained # <<>> /\ room = Tail(retained)
        BY <1>1, <3>1, EmptySeq
      <4>2. /\ Tail(retained) \in Seq(Event) /\ Len(Tail(retained)) = Len(retained) - 1
            /\ Len(Tail(retained)) \in Nat
            /\ \A i \in 1 .. Len(Tail(retained)) : Tail(retained)[i] = retained[i + 1]
        BY <1>1, <4>1, HeadTailProperties, LenProperties
      <4> HIDE DEF room
      <4>3. \A i \in 1 .. Len(room) : i + 1 \in 1 .. Len(retained) /\ room[i] = retained[i + 1]
        BY <1>1, <4>1, <4>2
      <4>4. Len(room) \in Nat /\ Len(room) < RetainedCapacity
        BY <1>1, <4>1, <4>2, LenProperties DEF RetainedDistinct
      <4>5. ASSUME NEW i \in 1 .. Len(room), NEW j \in 1 .. Len(room), Key(room[i]) = Key(room[j])
            PROVE  i = j
        <5>1. i + 1 = j + 1
          BY <4>3, <4>5 DEF RetainedDistinct
        <5> QED BY <5>1, <4>4
      <4> QED BY <1>3, <4>1, <4>2, <4>3, <4>4, <4>5
    <3>2. CASE ~(Len(retained) >= RetainedCapacity)
      BY <1>1, <1>3, <3>2 DEF RetainedDistinct
    <3> QED BY <3>1, <3>2
  <2> HIDE DEF room
  <2> DEFINE more == Append(room, e)
  <2>3. /\ more \in Seq(Event) /\ Len(more) = Len(room) + 1
        /\ \A i \in 1 .. Len(room) : more[i] = room[i]
        /\ more[Len(room) + 1] = e
    BY <2>2
  <2> HIDE DEF more
  <2>4. ASSUME NEW i \in 1 .. Len(more), NEW j \in 1 .. Len(more), Key(more[i]) = Key(more[j])
        PROVE  i = j
    <3>1. \A l \in 1 .. Len(more) : l \in 1 .. Len(room) \/ l = Len(room) + 1
      BY <2>2, <2>3
    <3>2. CASE i \in 1 .. Len(room) /\ j \in 1 .. Len(room)
      <4>1. Key(room[i]) = Key(room[j])
        BY <2>3, <2>4, <3>2
      <4> QED BY <2>2, <3>2, <4>1
    <3>3. CASE i = Len(room) + 1 /\ j \in 1 .. Len(room)
      BY <2>2, <2>3, <2>4, <3>3
    <3>4. CASE j = Len(room) + 1 /\ i \in 1 .. Len(room)
      BY <2>2, <2>3, <2>4, <3>4
    <3> QED BY <3>1, <3>2, <3>3, <3>4
  <2>5. retained' = more /\ upkeep' = upkeep /\ Len(more) <= RetainedCapacity
    BY <1>1, <2>1, <2>2, <2>3 DEF more
  <2> QED BY <2>3, <2>4, <2>5 DEF RetainedDistinct
<1> QED BY <1>2, <1>3

LEMMA LowPublishKeeps ==
  ASSUME TypeOK, RetainedDistinct, NEW e \in Event, LowPublish(e)
  PROVE  RetainedDistinct' /\ upkeep' \in Seq(Event) /\ retained' \in Seq(Event)
<1>1. CASE paused \/ Len(upkeep) = MaintenanceCapacity
  BY <1>1, RetainKeepsDistinct DEF LowPublish, TypeOK
<1>2. CASE ~(paused \/ Len(upkeep) = MaintenanceCapacity)
  <2>1. upkeep' = Append(upkeep, e) /\ retained' = retained
    BY <1>2 DEF LowPublish
  <2>2. upkeep' \in Seq(Event) /\ Len(upkeep') = Len(upkeep) + 1 /\ Len(upkeep) \in Nat
    BY <2>1, LenProperties DEF TypeOK
  <2> QED BY <1>2, <2>1, <2>2, CapacityAssumption DEF RetainedDistinct, TypeOK
<1> QED BY <1>1, <1>2

----------------------------------------------------------------------------
(* Steps. *)

\* Numbers only grow.
SentGrows ==
  /\ sent' \in [Publishers -> 0 .. MaxSent]
  /\ \A p \in Publishers : sent[p] <= sent'[p]

LEMMA IssuedStays ==
  ASSUME TypeOK, SentGrows, NEW e \in Event, Issued(e)
  PROVE  Issued(e)'
<1>1. e.by \in Publishers /\ e.no \in Nat
  BY CapacityAssumption DEF Event
<1>2. sent[e.by] \in Nat /\ sent'[e.by] \in Nat /\ sent[e.by] <= sent'[e.by]
  BY <1>1, CapacityAssumption DEF SentGrows, TypeOK
<1> QED BY <1>1, <1>2 DEF Issued

\* An event that is stored, by a publish that finds room or its key or by one that has
\* waited: who waits still waits for a key of his own, and what it takes the place of is older.
LEMMA StoreKeeps ==
  ASSUME Inv, SentGrows, NEW e \in Event, Issued(e)',
         \/ Overwrite(e) /\ e.no > sent[e.by]
         \/ ~IsPending(Key(e)) /\ Enqueue(e),
         Mirror(e), UNCHANGED decided,
         \A p \in Publishers : blocked'[p] = NoEvent \/ (blocked'[p] = blocked[p] /\ p # e.by)
  PROVE  /\ keys' \in Seq(Keys) /\ pending' \subseteq Event /\ mirrored' \subseteq Event
         /\ EventsIssued' /\ WaitersKnown' /\ TradingAgrees' /\ AwaitedNotLost'
<1>1. TypeOK /\ EventsIssued /\ WaitersKnown /\ TradingAgrees /\ AwaitedNotLost
  BY DEF Inv
<1>2. TradingAgrees' /\ keys' \in Seq(Keys)
  BY <1>1, OverwriteKeepsLane, EnqueueKeepsLane
<1>3. /\ pending' \subseteq Event /\ e \in pending'
      /\ \A k : IsPending(k)' <=> IsPending(k) \/ k = Key(e)
      /\ \A f \in pending' : f \in pending \/ f = e
      /\ \A f \in pending : f \in pending' \/ Key(f) = Key(e)
  BY <1>1, SetPendingKeys DEF TypeOK, Overwrite, Enqueue
<1>4. mirrored' = mirrored \cup {e} /\ mirrored' \subseteq Event
  BY <1>1 DEF Mirror, TypeOK
<1>5. EventsIssued'
  BY <1>1, <1>3, <1>4, IssuedStays DEF EventsIssued, TypeOK
<1>6. ASSUME NEW p \in Publishers, blocked'[p] # NoEvent
      PROVE  /\ blocked'[p].by = p /\ p \notin Operators
             /\ Issued(blocked[p])'
             /\ ~IsPending(Key(blocked[p]))'
  <2>1. PICK f \in Event : f = blocked[p]
    BY <1>1, <1>6 DEF TypeOK
  <2>2. blocked'[p] = f /\ p # e.by /\ f.by = p /\ p \notin Operators
    BY <1>1, <1>6, <2>1 DEF WaitersKnown, Waiting
  <2>3. Issued(f) /\ ~IsPending(Key(f))
    BY <1>1, <1>6, <2>1 DEF WaitersKnown, Waiting
  <2>4. Key(f) # Key(e)
    BY <2>2, <2>3, KeyOfOne DEF Issued
  <2>5. Issued(f)'
    BY <1>1, <2>3, IssuedStays
  <2>6. ~IsPending(Key(f))'
    BY <1>3, <2>3, <2>4
  <2> QED BY <2>2, <2>5, <2>6 DEF Issued, IsPending
<1>7. WaitersKnown'
  BY <1>6 DEF WaitersKnown, Waiting
<1>8. ASSUME NEW f \in mirrored', f.kind \in {"book", "order"}
      PROVE  \/ f \in pending' \cup decided'
             \/ \E g \in mirrored' : Key(g) = Key(f) /\ g.no > f.no
  <2>1. CASE f = e
    BY <1>3, <2>1
  <2>2. CASE f \in mirrored /\ f \notin pending
    BY <1>1, <1>4, <1>8, <2>2 DEF AwaitedNotLost
  <2>3. CASE f \in pending /\ Key(f) = Key(e)
    <3>1. e.no > sent[e.by] /\ f \in Event
      BY <1>1, <2>3 DEF IsPending, TypeOK
    <3>2. f.no <= sent[f.by] /\ f.kind \in KindsOf(f.by) /\ e.kind \in KindsOf(e.by)
      BY <1>1, <2>3 DEF EventsIssued, Issued
    <3>3. f.by = e.by /\ e.by \in Publishers
      BY <2>3, <3>1, <3>2, KeyOfOne DEF Event
    <3>4. e.no > f.no
      BY <1>1, <3>1, <3>2, <3>3, CapacityAssumption DEF Event, TypeOK
    <3> QED BY <1>4, <2>3, <3>4
  <2>4. CASE f \in pending /\ Key(f) # Key(e)
    BY <1>3, <2>4
  <2> QED BY <1>4, <2>1, <2>2, <2>3, <2>4
<1>9. AwaitedNotLost'
  BY <1>8 DEF AwaitedNotLost
<1> QED BY <1>2, <1>3, <1>4, <1>5, <1>7, <1>9

\* An event that enters no trading lane changes nothing there, be it for the other lane
\* or refused to a caller that does not wait.
LEMMA MirrorKeeps ==
  ASSUME Inv, SentGrows, NEW e \in Event, Issued(e)', e.kind \notin {"book", "order"},
         Mirror(e), UNCHANGED <<decided, keys, pending, blocked>>
  PROVE  /\ mirrored' \subseteq Event
         /\ EventsIssued' /\ WaitersKnown' /\ TradingAgrees' /\ AwaitedNotLost'
<1>1. mirrored' = mirrored \cup {e} /\ TypeOK
  BY DEF Mirror, Inv
<1>2. EventsIssued'
  BY <1>1, IssuedStays DEF EventsIssued, TypeOK, Inv
<1>3. ASSUME NEW p \in Publishers, blocked[p] # NoEvent
      PROVE  Issued(blocked[p])'
  <2>1. PICK f \in Event : f = blocked[p] /\ Issued(f)
    BY <1>1, <1>3 DEF TypeOK, Inv, WaitersKnown, Waiting
  <2>2. Issued(f)'
    BY <1>1, <2>1, IssuedStays
  <2> QED BY <2>1, <2>2 DEF Issued
<1>4. WaitersKnown'
  BY <1>3 DEF WaitersKnown, Waiting, Inv, IsPending, Issued
<1>5. TradingAgrees'
  BY DEF TradingAgrees, Inv, NoRepeats, Occurs, IsPending
<1>6. AwaitedNotLost'
  BY <1>1 DEF AwaitedNotLost, Inv
<1> QED BY <1>1, <1>2, <1>4, <1>5, <1>6 DEF TypeOK

LEMMA UnchangedRetained ==
  ASSUME RetainedDistinct, UNCHANGED <<upkeep, retained>>
  PROVE  RetainedDistinct'
BY DEF RetainedDistinct

LEMMA PublishKeeps ==
  ASSUME Inv, NEW p \in Publishers, Publish(p)
  PROVE  Inv'
<1>1. /\ TypeOK /\ RetainedDistinct
      /\ sent \in [Publishers -> 0 .. MaxSent] /\ sent[p] < MaxSent
      /\ sent' = [sent EXCEPT ![p] = @ + 1]
      /\ blocked[p] = NoEvent
      /\ UNCHANGED <<deciding, decided, reconciled>>
  BY DEF Inv, TypeOK, Publish
<1>2. PICK kind \in KindsOf(p) : \E token \in TokensOf(kind) :
        LET e == [by |-> p, no |-> sent[p] + 1, kind |-> kind, token |-> token]
        IN IF kind \in MaintenanceKinds THEN LowPublish(e)
           ELSE IF p \in Operators THEN NowaitPublish(e)
           ELSE AwaitedPublish(p, e)
  BY DEF Publish
<1>3. SentGrows /\ sent'[p] = sent[p] + 1 /\ sent[p] \in Nat
  BY <1>1, CapacityAssumption DEF SentGrows
<1> DEFINE Goes(x) == IF kind \in MaintenanceKinds THEN LowPublish(x)
                      ELSE IF p \in Operators THEN NowaitPublish(x)
                      ELSE AwaitedPublish(p, x)
<1>3a. PICK token \in TokensOf(kind) :
         Goes([by |-> p, no |-> sent[p] + 1, kind |-> kind, token |-> token])
  BY <1>2
<1> HIDE DEF Goes
<1>4. PICK e : e = [by |-> p, no |-> sent[p] + 1, kind |-> kind, token |-> token] /\ Goes(e)
  BY <1>3a
<1>5. e.by = p /\ e.no = sent[p] + 1 /\ e.kind = kind /\ e.token = token
  BY <1>4
<1>6. e \in Event
  <2>1. kind \in Kinds
    BY DEF KindsOf, Kinds, MaintenanceKinds
  <2>2. token \in Tokens \cup {NoToken}
    BY DEF TokensOf
  <2>3. sent[p] + 1 \in 1 .. MaxSent
    BY <1>1, <1>3, CapacityAssumption
  <2> QED BY <1>4, <2>1, <2>2, <2>3 DEF Event
<1>7. Issued(e)' /\ e.no > sent[e.by]
  BY <1>3, <1>5 DEF Issued
<1>8. CASE kind \in MaintenanceKinds
  <2>1. LowPublish(e)
    BY <1>4, <1>8 DEF Goes
  <2>2. RetainedDistinct' /\ upkeep' \in Seq(Event) /\ retained' \in Seq(Event)
    BY <1>1, <1>6, <2>1, LowPublishKeeps
  <2>3. e.kind \notin {"book", "order"}
    BY <1>5, <1>8 DEF MaintenanceKinds
  <2>4. Mirror(e) /\ UNCHANGED <<blocked, keys, pending, paused>>
    BY <2>1 DEF LowPublish
  <2>5. mirrored' \subseteq Event /\ EventsIssued' /\ WaitersKnown' /\ TradingAgrees' /\ AwaitedNotLost'
    BY <1>1, <1>3, <1>6, <1>7, <2>3, <2>4, MirrorKeeps
  <2>6. TypeOK'
    BY <1>1, <1>3, <2>2, <2>4, <2>5 DEF TypeOK, SentGrows
  <2> QED BY <2>2, <2>5, <2>6 DEF Inv
<1>9. CASE kind \notin MaintenanceKinds /\ UNCHANGED <<upkeep, retained, paused>>
           /\ Mirror(e) /\ UNCHANGED blocked
           /\ (Overwrite(e) \/ (~IsPending(Key(e)) /\ Enqueue(e)))
  <2>1. \A q \in Publishers : blocked'[q] = NoEvent \/ (blocked'[q] = blocked[q] /\ q # e.by)
    BY <1>1, <1>5, <1>9
  <2>2. /\ keys' \in Seq(Keys) /\ pending' \subseteq Event /\ mirrored' \subseteq Event
        /\ EventsIssued' /\ WaitersKnown' /\ TradingAgrees' /\ AwaitedNotLost'
    BY <1>1, <1>3, <1>6, <1>7, <1>9, <2>1, StoreKeeps
  <2>3. RetainedDistinct'
    BY <1>1, <1>9, UnchangedRetained
  <2>4. TypeOK'
    BY <1>1, <1>3, <1>9, <2>2 DEF TypeOK, SentGrows, Keys
  <2> QED BY <2>2, <2>3, <2>4 DEF Inv
\* A full lane, and a caller that does not wait.
<1>10. CASE kind \notin MaintenanceKinds /\ p \in Operators /\ UNCHANGED <<upkeep, retained, paused>>
            /\ Mirror(e) /\ UNCHANGED <<blocked, keys, pending>>
  <2>1. e.kind \notin {"book", "order"}
    BY <1>5, <1>10, AwaitedKinds
  <2>2. mirrored' \subseteq Event /\ EventsIssued' /\ WaitersKnown' /\ TradingAgrees' /\ AwaitedNotLost'
    BY <1>1, <1>3, <1>6, <1>7, <1>10, <2>1, MirrorKeeps
  <2>3. RetainedDistinct'
    BY <1>1, <1>10, UnchangedRetained
  <2>4. TypeOK'
    BY <1>1, <1>3, <1>10, <2>2 DEF TypeOK, SentGrows
  <2> QED BY <2>2, <2>3, <2>4 DEF Inv
\* A full lane, and a caller that does.
<1>11. CASE kind \notin MaintenanceKinds /\ p \notin Operators /\ UNCHANGED <<upkeep, retained, paused>>
            /\ ~IsPending(Key(e)) /\ blocked' = [blocked EXCEPT ![p] = e]
            /\ UNCHANGED <<keys, pending, mirrored>>
  <2>1. RetainedDistinct'
    BY <1>1, <1>11, UnchangedRetained
  <2>2. TypeOK'
    BY <1>1, <1>3, <1>6, <1>11 DEF TypeOK, SentGrows
  <2>3. TradingAgrees' /\ AwaitedNotLost'
    BY <1>1, <1>11 DEF Inv, TradingAgrees, NoRepeats, Occurs, IsPending, AwaitedNotLost
  <2>4. EventsIssued'
    BY <1>1, <1>3, <1>11, IssuedStays DEF EventsIssued, TypeOK, Inv
  <2>5. ASSUME NEW q \in Publishers, blocked'[q] # NoEvent
        PROVE  Waiting(q)'
    <3>1. CASE q = p
      <4>1. blocked'[q] = e
        BY <1>1, <1>11, <3>1 DEF TypeOK
      <4> QED BY <1>5, <1>7, <1>11, <3>1, <4>1 DEF Waiting, Issued, IsPending
    <3>2. CASE q # p
      <4>1. blocked'[q] = blocked[q]
        BY <1>1, <1>11, <3>2 DEF TypeOK
      <4>2. PICK f \in Event : f = blocked[q] /\ Issued(f)
        BY <1>1, <2>5, <4>1 DEF TypeOK, Inv, WaitersKnown, Waiting
      <4>3. Issued(f)'
        BY <1>1, <1>3, <4>2, IssuedStays
      <4> QED BY <1>11, <2>5, <4>1, <4>2, <4>3 DEF Waiting, Issued, IsPending, Inv, WaitersKnown
    <3> QED BY <3>1, <3>2
  <2>6. WaitersKnown'
    BY <2>5 DEF WaitersKnown, Waiting
  <2> QED BY <2>1, <2>2, <2>3, <2>4, <2>6 DEF Inv
<1>12. CASE kind \notin MaintenanceKinds /\ p \in Operators
  <2>1. NowaitPublish(e)
    BY <1>4, <1>12 DEF Goes
  <2> QED BY <1>9, <1>10, <1>12, <2>1 DEF NowaitPublish
<1>13. CASE kind \notin MaintenanceKinds /\ p \notin Operators
  <2>1. AwaitedPublish(p, e)
    BY <1>4, <1>13 DEF Goes
  <2> QED BY <1>9, <1>11, <1>13, <2>1 DEF AwaitedPublish
<1> QED BY <1>8, <1>12, <1>13

LEMMA UnblockKeeps ==
  ASSUME Inv, NEW p \in Publishers, Unblock(p)
  PROVE  Inv'
<1>1. /\ TypeOK /\ RetainedDistinct /\ WaitersKnown
      /\ blocked' = [blocked EXCEPT ![p] = NoEvent]
      /\ UNCHANGED <<sent, upkeep, retained, paused, deciding, decided, reconciled>>
  BY DEF Inv, Unblock
<1>2. PICK e \in Event : e = blocked[p]
  BY <1>1 DEF Unblock, TypeOK
<1>3. e.by = p /\ Issued(e) /\ ~IsPending(Key(e))
  BY <1>1, <1>2, NoEventAssumption DEF WaitersKnown, Waiting
<1>4. Enqueue(e) /\ Mirror(e)
  BY <1>2 DEF Unblock
<1>5. SentGrows
  BY <1>1, CapacityAssumption DEF SentGrows, TypeOK
<1>6. Issued(e)'
  BY <1>1, <1>3, <1>5, IssuedStays
<1>7. \A q \in Publishers : blocked'[q] = NoEvent \/ (blocked'[q] = blocked[q] /\ q # e.by)
  BY <1>1, <1>3 DEF TypeOK
<1>8. /\ keys' \in Seq(Keys) /\ pending' \subseteq Event /\ mirrored' \subseteq Event
      /\ EventsIssued' /\ WaitersKnown' /\ TradingAgrees' /\ AwaitedNotLost'
  BY <1>1, <1>3, <1>4, <1>5, <1>6, <1>7, StoreKeeps
<1>9. RetainedDistinct'
  BY <1>1, UnchangedRetained
<1>10. TypeOK'
  BY <1>1, <1>5, <1>8 DEF TypeOK, SentGrows, Keys
<1> QED BY <1>8, <1>9, <1>10 DEF Inv

LEMMA TakeTradingKeeps ==
  ASSUME Inv, TakeTrading
  PROVE  Inv'
<1> DEFINE taken == {e \in pending : Key(e) = Head(keys)}
<1>1. /\ TypeOK /\ RetainedDistinct /\ TradingAgrees
      /\ pending' = pending \ taken /\ decided' = decided \cup taken
      /\ deciding' \in BOOLEAN
      /\ IF taken = {} THEN UNCHANGED <<upkeep, retained>> ELSE FlushUnlessPaused(upkeep)
      /\ UNCHANGED <<sent, blocked, paused, mirrored, reconciled>>
  BY DEF Inv, TakeTrading
<1> HIDE DEF taken
<1>2. TradingAgrees' /\ keys' \in Seq(Keys) /\ pending' \subseteq pending
  BY <1>1, TakeKeepsLane
<1>3. RetainedDistinct' /\ upkeep' \in Seq(Event) /\ retained' \in Seq(Event)
  BY <1>1, FlushUnlessPausedKeeps, UnchangedRetained DEF TypeOK, RetainedDistinct
<1>4. decided' \subseteq Event
  BY <1>1 DEF TypeOK, taken
<1>5. TypeOK'
  BY <1>1, <1>2, <1>3, <1>4 DEF TypeOK, Keys
<1>6. EventsIssued' /\ WaitersKnown'
  BY <1>1, <1>2 DEF Inv, EventsIssued, WaitersKnown, Waiting, Issued, IsPending
<1>7. AwaitedNotLost'
  BY <1>1 DEF Inv, AwaitedNotLost
<1> QED BY <1>2, <1>3, <1>5, <1>6, <1>7 DEF Inv

\* The other steps leave the trading lane and the publishers alone.
LEMMA RestKeeps ==
  ASSUME Inv, TypeOK', RetainedDistinct',
         UNCHANGED <<sent, blocked, keys, pending, mirrored, decided>>
  PROVE  Inv'
BY DEF Inv, EventsIssued, WaitersKnown, Waiting, Issued, IsPending, TradingAgrees, NoRepeats,
       Occurs, AwaitedNotLost

LEMMA TakeMaintenanceKeeps ==
  ASSUME Inv, TakeMaintenance
  PROVE  Inv'
<1>1. /\ TypeOK /\ RetainedDistinct /\ upkeep # <<>> /\ FlushUnlessPaused(Tail(upkeep))
      /\ reconciled' = reconciled \cup {Head(upkeep)}
      /\ UNCHANGED <<sent, blocked, keys, pending, paused, deciding, mirrored, decided>>
  BY DEF Inv, TakeMaintenance
<1>2. /\ Tail(upkeep) \in Seq(Event) /\ Head(upkeep) \in Event
      /\ Len(Tail(upkeep)) <= MaintenanceCapacity
  BY <1>1, HeadTailProperties, LenProperties, CapacityAssumption DEF TypeOK, RetainedDistinct
<1>3. RetainedDistinct' /\ upkeep' \in Seq(Event) /\ retained' \in Seq(Event)
  BY <1>1, <1>2, FlushUnlessPausedKeeps
<1>4. TypeOK'
  BY <1>1, <1>2, <1>3 DEF TypeOK
<1> QED BY <1>1, <1>3, <1>4, RestKeeps

LEMMA ResumeKeeps ==
  ASSUME Inv, Resume
  PROVE  Inv'
<1>1. /\ TypeOK /\ RetainedDistinct /\ Flush(upkeep, retained) /\ paused' = FALSE
      /\ UNCHANGED <<sent, blocked, keys, pending, deciding, mirrored, decided, reconciled>>
      /\ upkeep \in Seq(Event) /\ Len(upkeep) <= MaintenanceCapacity
  BY DEF Inv, Resume, TypeOK, RetainedDistinct
<1>2. RetainedDistinct' /\ upkeep' \in Seq(Event) /\ retained' \in Seq(Event)
  BY <1>1, FlushKeepsRetained
<1>3. TypeOK'
  BY <1>1, <1>2 DEF TypeOK
<1> QED BY <1>1, <1>2, <1>3, RestKeeps

----------------------------------------------------------------------------
(* Theorems. *)

\* The inductive invariant holds in every state of the bus.
THEOREM Invariance == Spec => []Inv
<1>1. Init => Inv
  <2> SUFFICES ASSUME Init PROVE Inv
    OBVIOUS
  <2>1. Len(<<>>) = 0 /\ <<>> \in Seq(Event) /\ <<>> \in Seq(Keys)
    BY EmptySeq, Zenon
  <2>2. TypeOK
    <3>1. sent \in [Publishers -> 0 .. MaxSent] /\ blocked \in [Publishers -> Event \cup {NoEvent}]
      BY CapacityAssumption DEF Init
    <3>2. keys \in Seq({Key(e) : e \in Event}) /\ upkeep \in Seq(Event) /\ retained \in Seq(Event)
      BY <2>1 DEF Init, Keys
    <3> QED BY <3>1, <3>2 DEF Init, TypeOK
  <2>3. EventsIssued /\ WaitersKnown /\ AwaitedNotLost
    BY DEF Init, EventsIssued, WaitersKnown, Waiting, AwaitedNotLost
  <2>4. TradingAgrees /\ RetainedDistinct
    BY <2>1, CapacityAssumption DEF Init, TradingAgrees, RetainedDistinct, NoRepeats
  <2> QED BY <2>2, <2>3, <2>4 DEF Inv
<1>2. Inv /\ [Next]_vars => Inv'
  <2> SUFFICES ASSUME Inv, [Next]_vars PROVE Inv'
    OBVIOUS
  <2>1. CASE \E p \in Publishers : Publish(p)
    BY <2>1, PublishKeeps
  <2>2. CASE \E p \in Publishers : Unblock(p)
    BY <2>2, UnblockKeeps
  <2>3. CASE TakeTrading
    BY <2>3, TakeTradingKeeps
  <2>4. CASE EndDecision \/ Pause \/ UNCHANGED vars
    <3>1. TypeOK'
      BY <2>4 DEF EndDecision, Pause, vars, busVars, TypeOK, Inv
    <3>2. RetainedDistinct'
      BY <2>4, UnchangedRetained DEF EndDecision, Pause, vars, busVars, Inv
    <3> QED BY <2>4, <3>1, <3>2, RestKeeps DEF EndDecision, Pause, vars, busVars
  <2>5. CASE TakeMaintenance
    BY <2>5, TakeMaintenanceKeeps
  <2>6. CASE Resume
    BY <2>6, ResumeKeeps
  <2> QED BY <2>1, <2>2, <2>3, <2>4, <2>5, <2>6 DEF Next
<1> QED BY <1>1, <1>2, PTL DEF Spec

\* Every variable keeps its type.
THEOREM TypeCorrect == Spec => []TypeOK
<1>1. Inv => TypeOK
  BY DEF Inv
<1> QED BY <1>1, Invariance, PTL

\* The queue of keys and the dict of pending events stay in step, and a long pause keeps
\* one event of each identity.  (publish, publish_nowait, next_trading_event, _retain)
THEOREM LanesAgree == Spec => []LaneAgrees
<1>1. Inv => LaneAgrees
  BY DEF Inv, LaneAgrees
<1> QED BY <1>1, Invariance, PTL

\* An awaited event is pending or taken unless a newer one of its key came, through full
\* queues and blocked publishers.  (publish, next_trading_event)
THEOREM AwaitedIsNotLost == Spec => []AwaitedNotLost
<1>1. Inv => AwaitedNotLost
  BY DEF Inv
<1> QED BY <1>1, Invariance, PTL

----------------------------------------------------------------------------
(* The events pushed to onlookers: the inductive invariant. *)

Numbers == 1 .. MaxEvents

Listeners ==
  [on : BOOLEAN, wants : SUBSET Topics, queue : Seq(Numbers \cup {LagMarker}), lag : BOOLEAN,
   dropped : Nat, got : 0 .. MaxEvents, lost : Nat, told : BOOLEAN]

\* A listener with room and with no loss that is not counted.
Sound(l) == l \in Listeners /\ Len(l.queue) <= Capacity /\ l.lost <= l.dropped

StreamsSound ==
  /\ stream \in [Streams -> Listeners]
  /\ \A c \in Streams : Sound(stream[c])
  /\ Cardinality(Listening) <= SoftCap

HubTyped ==
  /\ published \in 0 .. MaxEvents
  /\ hub \in [queue : Seq(Numbers), sends : Numbers \cup {None}, waits : SUBSET Sockets]
  /\ Len(hub.queue) <= Capacity
  /\ topics \in [Sockets -> SUBSET Topics]
  /\ pushed \in [Sockets -> 0 .. MaxEvents]

\* From what the sockets have been sent to what is being sent, to what is queued, to what is
\* published, the numbers go up.
Ascending ==
  /\ \A i, j \in 1 .. Len(hub.queue) : i < j => hub.queue[i] < hub.queue[j]
  /\ \A i \in 1 .. Len(hub.queue) :
       /\ hub.queue[i] <= published
       /\ hub.sends # None => hub.sends < hub.queue[i]
       /\ \A w \in Sockets : pushed[w] < hub.queue[i]
  /\ \A w \in Sockets : pushed[w] <= published
  /\ hub.sends # None => hub.sends <= published
  /\ \A w \in hub.waits : hub.sends # None /\ pushed[w] < hub.sends

PushInv == StreamsSound /\ HubTyped /\ Ascending

LEMMA MaxEventsType == MaxEvents \in Nat
BY ConstantsAssumption, LenProperties DEF MaxEvents

LEMMA NumbersType == \A n \in Numbers : n \in Nat /\ n # 0 /\ n \in 0 .. MaxEvents
BY MaxEventsType DEF Numbers

----------------------------------------------------------------------------
(* The server-sent streams. *)

LEMMA DropOldestKeeps ==
  ASSUME NEW l, Sound(l), Len(l.queue) = Capacity
  PROVE  /\ Sound(DropOldest(l)) /\ Len(DropOldest(l).queue) = Capacity - 1
         /\ DropOldest(l).on = l.on
<1>1. /\ l.queue \in Seq(Numbers \cup {LagMarker}) /\ l.queue # <<>>
      /\ l.lost \in Nat /\ l.dropped \in Nat /\ l.lost <= l.dropped
  BY ConstantsAssumption, EmptySeq DEF Sound, Listeners
<1>2. /\ Tail(l.queue) \in Seq(Numbers \cup {LagMarker})
      /\ Len(Tail(l.queue)) = Capacity - 1
  BY <1>1, HeadTailProperties
<1> DEFINE one == IF Head(l.queue) = LagMarker THEN 0 ELSE 1
<1>3. one \in 0 .. 1
  OBVIOUS
<1>4. DropOldest(l) = [l EXCEPT !.queue = Tail(l.queue), !.dropped = l.dropped + 1, !.lost = l.lost + one]
  BY DEF DropOldest
<1> HIDE DEF one
<1>5. l \in Listeners /\ l.dropped + 1 \in Nat /\ l.lost + one \in Nat
  BY <1>1, <1>3 DEF Sound
<1>6. /\ DropOldest(l) \in Listeners /\ DropOldest(l).queue = Tail(l.queue)
      /\ DropOldest(l).dropped = l.dropped + 1 /\ DropOldest(l).lost = l.lost + one
      /\ DropOldest(l).on = l.on
  BY <1>2, <1>4, <1>5 DEF Listeners
<1> QED BY <1>1, <1>2, <1>3, <1>6, ConstantsAssumption DEF Sound

LEMMA MarkLagKeeps ==
  ASSUME NEW l, Sound(l), Len(l.queue) < Capacity
  PROVE  Sound(MarkLag(l)) /\ MarkLag(l).on = l.on
<1>1. CASE l.lag
  BY <1>1 DEF MarkLag
<1>2. CASE ~l.lag
  <2>1. /\ l.queue \in Seq(Numbers \cup {LagMarker}) /\ Len(l.queue) \in Nat
        /\ Append(l.queue, LagMarker) \in Seq(Numbers \cup {LagMarker})
        /\ Len(Append(l.queue, LagMarker)) = Len(l.queue) + 1
    BY LenProperties DEF Sound, Listeners
  <2>2. MarkLag(l) = [l EXCEPT !.lag = TRUE, !.queue = Append(l.queue, LagMarker)]
    BY <1>2 DEF MarkLag
  <2>3. /\ MarkLag(l) \in Listeners /\ MarkLag(l).queue = Append(l.queue, LagMarker)
        /\ MarkLag(l).lost = l.lost /\ MarkLag(l).dropped = l.dropped /\ MarkLag(l).on = l.on
    BY <2>1, <2>2 DEF Sound, Listeners
  <2> QED BY <2>1, <2>3, ConstantsAssumption DEF Sound
<1> QED BY <1>1, <1>2 DEF Sound, Listeners

LEMMA PutOrGiveUpKeeps ==
  ASSUME NEW l, Sound(l), NEW e \in Numbers
  PROVE  Sound(PutOrGiveUp(l, e)) /\ PutOrGiveUp(l, e).on = l.on
<1>1. /\ l.queue \in Seq(Numbers \cup {LagMarker}) /\ Len(l.queue) \in Nat
      /\ Append(l.queue, e) \in Seq(Numbers \cup {LagMarker})
      /\ Len(Append(l.queue, e)) = Len(l.queue) + 1
      /\ l.lost \in Nat /\ l.dropped \in Nat /\ l.lost <= l.dropped
  BY LenProperties DEF Sound, Listeners
<1>2. CASE Len(l.queue) < Capacity
  <2>1. PutOrGiveUp(l, e) = [l EXCEPT !.queue = Append(l.queue, e)]
    BY <1>2 DEF PutOrGiveUp
  <2>2. /\ PutOrGiveUp(l, e) \in Listeners /\ PutOrGiveUp(l, e).queue = Append(l.queue, e)
        /\ PutOrGiveUp(l, e).lost = l.lost /\ PutOrGiveUp(l, e).dropped = l.dropped
        /\ PutOrGiveUp(l, e).on = l.on
    BY <1>1, <2>1 DEF Sound, Listeners
  <2> QED BY <1>1, <1>2, <2>2, ConstantsAssumption DEF Sound
<1>3. CASE ~(Len(l.queue) < Capacity)
  <2>1. PutOrGiveUp(l, e) = [l EXCEPT !.lost = l.lost + 1, !.dropped = l.dropped + 1]
    BY <1>3 DEF PutOrGiveUp
  <2>2. l \in Listeners /\ l.dropped + 1 \in Nat /\ l.lost + 1 \in Nat
    BY <1>1 DEF Sound
  <2>3. /\ PutOrGiveUp(l, e) \in Listeners /\ PutOrGiveUp(l, e).queue = l.queue
        /\ PutOrGiveUp(l, e).lost = l.lost + 1 /\ PutOrGiveUp(l, e).dropped = l.dropped + 1
        /\ PutOrGiveUp(l, e).on = l.on
    BY <2>1, <2>2 DEF Listeners
  <2>4. l.lost + 1 <= l.dropped + 1
    BY <1>1
  <2> QED BY <2>3, <2>4, <1>1 DEF Sound
<1> QED BY <1>2, <1>3

\* An event that is offered leaves the listener sound, whether it fits or not.
LEMMA OfferKeeps ==
  ASSUME NEW l, Sound(l), NEW e \in Numbers
  PROVE  Sound(Offer(l, e)) /\ Offer(l, e).on = l.on
<1>1. CASE ~EventMatches(l, e)
  BY <1>1 DEF Offer
<1>2. CASE EventMatches(l, e) /\ Len(l.queue) < Capacity
  <2>1. Offer(l, e) = PutOrGiveUp(l, e)
    BY <1>2 DEF Offer, PutOrGiveUp
  <2> QED BY <2>1, PutOrGiveUpKeeps
<1>3. CASE EventMatches(l, e) /\ ~(Len(l.queue) < Capacity)
  <2>1. Len(l.queue) = Capacity
    BY <1>3, ConstantsAssumption, LenProperties DEF Sound, Listeners
  <2>2. /\ Sound(DropOldest(l)) /\ Len(DropOldest(l).queue) < Capacity
        /\ DropOldest(l).on = l.on
    BY <2>1, DropOldestKeeps, ConstantsAssumption
  <2>3. Sound(MarkLag(DropOldest(l))) /\ MarkLag(DropOldest(l)).on = l.on
    BY <2>2, MarkLagKeeps
  <2>4. Offer(l, e) = PutOrGiveUp(MarkLag(DropOldest(l)), e)
    BY <1>3 DEF Offer
  <2> QED BY <2>3, <2>4, PutOrGiveUpKeeps
<1> QED BY <1>1, <1>2, <1>3

\* Whoever listens is counted.
LEMMA ListeningStays ==
  ASSUME \A c \in Streams : stream'[c].on = stream[c].on
  PROVE  Listening' = Listening
BY DEF Listening

LEMMA ListeningFinite ==
  IsFiniteSet(Listening) /\ Cardinality(Listening) \in Nat
BY ConstantsAssumption, FS_Subset, FS_CardinalityType DEF Listening

LEMMA NoListenerSound == Sound(NoListener)
<1>1. <<>> \in Seq(Numbers \cup {LagMarker}) /\ Len(<<>>) = 0
  OBVIOUS
<1> QED BY <1>1, MaxEventsType, ConstantsAssumption DEF Sound, Listeners, NoListener

LEMMA BroadcastStreams ==
  ASSUME StreamsSound, HubTyped, Broadcast
  PROVE  StreamsSound'
<1>1. published + 1 \in Numbers
  BY MaxEventsType DEF Broadcast, HubTyped, Numbers
<1>2. /\ stream' = [c \in Streams |-> Offer(stream[c], published + 1)]
  BY DEF Broadcast
<1>3. \A c \in Streams : Sound(stream'[c]) /\ stream'[c].on = stream[c].on
  BY <1>1, <1>2, OfferKeeps DEF StreamsSound
<1>4. Listening' = Listening
  BY <1>3, ListeningStays
<1> QED BY <1>2, <1>3, <1>4 DEF StreamsSound, Sound

LEMMA RegisterStreams ==
  ASSUME StreamsSound, NEW c \in Streams, NEW types \in SUBSET Topics, Register(c, types)
  PROVE  StreamsSound'
<1> DEFINE l == [stream[c] EXCEPT !.on = TRUE, !.wants = types]
<1>1. stream' = [stream EXCEPT ![c] = l]
  BY DEF Register
<1>2. Sound(l) /\ l.on
  <2>1. stream[c] \in Listeners /\ Sound(stream[c])
    BY DEF StreamsSound
  <2>2. l \in Listeners /\ l.on /\ l.queue = stream[c].queue
        /\ l.lost = stream[c].lost /\ l.dropped = stream[c].dropped
    BY <2>1 DEF Listeners
  <2> HIDE DEF l
  <2> QED BY <2>1, <2>2 DEF Sound
<1> HIDE DEF l
<1>3. \A d \in Streams : Sound(stream'[d]) /\ stream'[d].on = (stream[d].on \/ d = c)
  BY <1>1, <1>2 DEF StreamsSound, Listeners
<1>4. Listening' = Listening \cup {c}
  BY <1>3 DEF Listening
<1>5. c \notin Listening /\ Cardinality(Listening) < SoftCap
  BY DEF Register, Listening
<1>6. Cardinality(Listening \cup {c}) = Cardinality(Listening) + 1
  BY <1>5, ListeningFinite, FS_AddElement
<1>7. Cardinality(Listening') <= SoftCap
  BY <1>4, <1>5, <1>6, ListeningFinite, ConstantsAssumption
<1> QED BY <1>1, <1>2, <1>3, <1>7 DEF StreamsSound, Sound

LEMMA ReadStreams ==
  ASSUME StreamsSound, NEW c \in Streams, Read(c)
  PROVE  StreamsSound'
<1> DEFINE l == stream[c]
           item == Head(l.queue)
           rest == [l EXCEPT !.queue = Tail(l.queue)]
           next == IF item = LagMarker THEN [rest EXCEPT !.lag = FALSE, !.told = TRUE]
                   ELSE [rest EXCEPT !.got = item]
<1>1. stream' = [stream EXCEPT ![c] = next]
  BY DEF Read
<1>2. /\ l \in Listeners /\ Sound(l) /\ l.queue # <<>>
      /\ l.queue \in Seq(Numbers \cup {LagMarker}) /\ Len(l.queue) \in Nat
  BY LenProperties DEF StreamsSound, Read, Listeners
<1> HIDE DEF l
<1>3. /\ item \in Numbers \cup {LagMarker} /\ Tail(l.queue) \in Seq(Numbers \cup {LagMarker})
      /\ Len(Tail(l.queue)) = Len(l.queue) - 1
  BY <1>2, HeadTailProperties
<1> HIDE DEF item
<1>4. item \in 0 .. MaxEvents
  BY <1>3, MaxEventsType DEF Numbers, LagMarker
<1>5. /\ next \in Listeners /\ next.queue = Tail(l.queue) /\ next.on = l.on
      /\ next.lost = l.lost /\ next.dropped = l.dropped
  BY <1>2, <1>3, <1>4 DEF Listeners
<1> HIDE DEF next
<1>6. Sound(next)
  BY <1>2, <1>3, <1>5, ConstantsAssumption DEF Sound
<1>7. \A d \in Streams : Sound(stream'[d]) /\ stream'[d].on = stream[d].on
  BY <1>1, <1>5, <1>6 DEF StreamsSound, l
<1>8. Listening' = Listening
  BY <1>7, ListeningStays
<1> QED BY <1>1, <1>5, <1>7, <1>8 DEF StreamsSound

LEMMA UnregisterStreams ==
  ASSUME StreamsSound, NEW c \in Streams, Unregister(c)
  PROVE  StreamsSound'
<1>1. stream' = [stream EXCEPT ![c] = NoListener]
  BY DEF Unregister
<1>2. \A d \in Streams : Sound(stream'[d]) /\ (stream'[d].on => stream[d].on)
  BY <1>1, NoListenerSound DEF StreamsSound, NoListener
<1>3. Listening' \subseteq Listening
  BY <1>2 DEF Listening
<1>4. Cardinality(Listening') <= Cardinality(Listening)
  BY <1>3, ListeningFinite, FS_Subset
<1>5. Cardinality(Listening') \in Nat
  BY <1>3, ListeningFinite, FS_Subset, FS_CardinalityType
<1> QED BY <1>1, <1>2, <1>4, <1>5, ListeningFinite, NoListenerSound, ConstantsAssumption
        DEF StreamsSound, Sound

LEMMA SameStreams ==
  ASSUME StreamsSound, UNCHANGED stream
  PROVE  StreamsSound'
BY DEF StreamsSound, Listening

----------------------------------------------------------------------------
(* The web sockets. *)

Up(q) == \A i, j \in 1 .. Len(q) : i < j => q[i] < q[j]

\* The tail of an ascending queue of numbers, and what is below its head.
LEMMA TailUp ==
  ASSUME NEW q \in Seq(Numbers), q # <<>>, Up(q)
  PROVE  /\ Tail(q) \in Seq(Numbers) /\ Len(Tail(q)) = Len(q) - 1 /\ Len(q) \in Nat \ {0}
         /\ Up(Tail(q)) /\ Head(q) = q[1] /\ Head(q) \in Numbers
         /\ \A i \in 1 .. Len(Tail(q)) :
              i + 1 \in 1 .. Len(q) /\ Tail(q)[i] = q[i + 1] /\ Head(q) < Tail(q)[i]
<1>1. /\ Tail(q) \in Seq(Numbers) /\ Len(Tail(q)) = Len(q) - 1 /\ Len(q) \in Nat \ {0}
      /\ Head(q) = q[1] /\ Head(q) \in Numbers
      /\ \A i \in 1 .. Len(Tail(q)) : Tail(q)[i] = q[i + 1]
  BY HeadTailProperties, EmptySeq, LenProperties
<1>2. \A i \in 1 .. Len(Tail(q)) : i + 1 \in 1 .. Len(q) /\ 1 < i + 1
  BY <1>1
<1>3. Up(Tail(q))
  <2> SUFFICES ASSUME NEW i \in 1 .. Len(Tail(q)), NEW j \in 1 .. Len(Tail(q)), i < j
               PROVE  Tail(q)[i] < Tail(q)[j]
    BY DEF Up
  <2>1. i + 1 \in 1 .. Len(q) /\ j + 1 \in 1 .. Len(q) /\ i + 1 < j + 1
    BY <1>2
  <2> QED BY <1>1, <2>1 DEF Up
<1>4. \A i \in 1 .. Len(Tail(q)) : Head(q) < Tail(q)[i]
  BY <1>1, <1>2 DEF Up
<1> QED BY <1>1, <1>2, <1>3, <1>4

\* What the publisher's queue holds after a new event: what it held, without the oldest if it
\* was full, and the event, which is larger.
LEMMA EnqueuedUp ==
  ASSUME NEW q \in Seq(Numbers), Len(q) <= Capacity, Up(q), NEW e \in Numbers,
         \A i \in 1 .. Len(q) : q[i] < e
  PROVE  /\ Enqueued(q, e) \in Seq(Numbers) /\ Len(Enqueued(q, e)) <= Capacity
         /\ Up(Enqueued(q, e))
         /\ \A i \in 1 .. Len(Enqueued(q, e)) :
              Enqueued(q, e)[i] = e \/ \E j \in 1 .. Len(q) : Enqueued(q, e)[i] = q[j]
<1> DEFINE room == IF Len(q) < Capacity THEN q ELSE Tail(q)
           more == Append(room, e)
<1>1. Enqueued(q, e) = more
  BY DEF Enqueued
<1>2. /\ room \in Seq(Numbers) /\ Len(room) \in Nat /\ Len(room) < Capacity /\ Up(room)
      /\ \A i \in 1 .. Len(room) : room[i] < e /\ \E j \in 1 .. Len(q) : room[i] = q[j]
  <2>1. CASE Len(q) < Capacity
    BY <2>1, LenProperties
  <2>2. CASE ~(Len(q) < Capacity)
    <3>1. q # <<>> /\ room = Tail(q)
      BY <2>2, ConstantsAssumption, EmptySeq
    <3>2. /\ Tail(q) \in Seq(Numbers) /\ Len(Tail(q)) = Len(q) - 1 /\ Len(q) \in Nat \ {0}
          /\ Up(Tail(q))
          /\ \A i \in 1 .. Len(Tail(q)) : i + 1 \in 1 .. Len(q) /\ Tail(q)[i] = q[i + 1]
      BY <3>1, TailUp
    <3> HIDE DEF room
    <3> QED BY <3>1, <3>2, ConstantsAssumption
  <2> QED BY <2>1, <2>2
<1> HIDE DEF room
<1>3. /\ more \in Seq(Numbers) /\ Len(more) = Len(room) + 1
      /\ \A i \in 1 .. Len(room) : more[i] = room[i]
      /\ more[Len(room) + 1] = e
  BY <1>2
<1> HIDE DEF more
<1>4. \A i \in 1 .. Len(more) : i \in 1 .. Len(room) \/ i = Len(room) + 1
  BY <1>2, <1>3
<1>5. \A i \in 1 .. Len(more) : more[i] = e \/ \E j \in 1 .. Len(q) : more[i] = q[j]
  BY <1>2, <1>3, <1>4
<1>6. Up(more)
  <2> SUFFICES ASSUME NEW i \in 1 .. Len(more), NEW j \in 1 .. Len(more), i < j
               PROVE  more[i] < more[j]
    BY DEF Up
  <2>1. i \in 1 .. Len(room)
    BY <1>2, <1>3, <1>4
  <2>2. CASE j \in 1 .. Len(room)
    BY <1>2, <1>3, <2>1, <2>2 DEF Up
  <2>3. CASE j = Len(room) + 1
    BY <1>2, <1>3, <2>1, <2>3
  <2> QED BY <1>4, <2>2, <2>3
<1> QED BY <1>1, <1>2, <1>3, <1>5, <1>6, ConstantsAssumption

\* The state of the publisher in numbers.
LEMMA HubFacts ==
  ASSUME HubTyped, Ascending
  PROVE  /\ published \in Nat
         /\ hub.queue \in Seq(Numbers) /\ Len(hub.queue) <= Capacity /\ Up(hub.queue)
         /\ \A i \in 1 .. Len(hub.queue) : hub.queue[i] \in Nat /\ hub.queue[i] <= published
         /\ hub.sends # None => hub.sends \in Nat /\ hub.sends <= published
         /\ \A w \in Sockets : pushed[w] \in Nat /\ pushed[w] <= published
<1>1. published \in Nat /\ hub.queue \in Seq(Numbers) /\ hub.sends \in Numbers \cup {None}
  BY MaxEventsType DEF HubTyped
<1>2. Len(hub.queue) <= Capacity /\ Up(hub.queue)
  BY DEF HubTyped, Ascending, Up
<1>3. ASSUME NEW i \in 1 .. Len(hub.queue)
      PROVE  hub.queue[i] \in Nat /\ hub.queue[i] <= published
  <2>1. hub.queue[i] \in Numbers
    BY <1>1, ElementOfSeq
  <2> QED BY <2>1, NumbersType DEF Ascending
<1>4. hub.sends # None => hub.sends \in Nat /\ hub.sends <= published
  <2>1. hub.sends # None => hub.sends \in Numbers
    BY <1>1
  <2> QED BY <2>1, NumbersType DEF Ascending
<1>5. \A w \in Sockets : pushed[w] \in Nat /\ pushed[w] <= published
  BY MaxEventsType DEF HubTyped, Ascending
<1> QED BY <1>1, <1>2, <1>3, <1>4, <1>5

LEMMA BroadcastHub ==
  ASSUME HubTyped, Ascending, Broadcast
  PROVE  HubTyped' /\ Ascending'
<1> DEFINE e == published + 1
           q == hub.queue
<1>1. /\ published' = e /\ hub' = [hub EXCEPT !.queue = Enqueued(q, e)]
      /\ UNCHANGED <<topics, pushed>> /\ published < MaxEvents
  BY DEF Broadcast
<1>2. /\ published \in Nat /\ e \in Numbers /\ q \in Seq(Numbers) /\ Len(q) <= Capacity /\ Up(q)
      /\ \A i \in 1 .. Len(q) : q[i] < e
  <2>1. e \in Numbers
    BY <1>1, HubFacts, MaxEventsType DEF Numbers
  <2>2. /\ published \in Nat /\ q \in Seq(Numbers) /\ Len(q) <= Capacity /\ Up(q)
        /\ \A i \in 1 .. Len(q) : q[i] \in Nat /\ q[i] <= published
    BY HubFacts
  <2> HIDE DEF q
  <2> QED BY <2>1, <2>2
<1>3. /\ hub'.queue = Enqueued(q, e) /\ hub'.sends = hub.sends /\ hub'.waits = hub.waits
      /\ hub' \in [queue : {Enqueued(q, e)}, sends : Numbers \cup {None}, waits : SUBSET Sockets]
  BY <1>1 DEF HubTyped
<1>4. /\ hub'.queue \in Seq(Numbers) /\ Len(hub'.queue) <= Capacity /\ Up(hub'.queue)
      /\ \A i \in 1 .. Len(hub'.queue) : hub'.queue[i] = e \/ \E j \in 1 .. Len(q) : hub'.queue[i] = q[j]
  <2> HIDE DEF e, q
  <2>1. /\ Enqueued(q, e) \in Seq(Numbers) /\ Len(Enqueued(q, e)) <= Capacity /\ Up(Enqueued(q, e))
        /\ \A i \in 1 .. Len(Enqueued(q, e)) :
             Enqueued(q, e)[i] = e \/ \E j \in 1 .. Len(q) : Enqueued(q, e)[i] = q[j]
    BY <1>2, EnqueuedUp
  <2> QED BY <1>3, <2>1
<1>5. HubTyped'
  <2>1. hub' \in [queue : Seq(Numbers), sends : Numbers \cup {None}, waits : SUBSET Sockets]
    BY <1>3, <1>4
  <2>2. published' \in 0 .. MaxEvents
    BY <1>1, <1>2, MaxEventsType
  <2> QED BY <1>1, <1>4, <2>1, <2>2 DEF HubTyped
<1>6. \A w \in Sockets : pushed[w] \in Nat /\ pushed[w] <= published
  BY HubFacts
<1>7. hub.sends # None => hub.sends \in Nat /\ hub.sends <= published
  BY HubFacts
<1> HIDE DEF e
<1>8. e = published + 1
  BY DEF e
<1>9. ASSUME NEW i \in 1 .. Len(hub'.queue)
      PROVE  /\ hub'.queue[i] <= published'
             /\ hub'.sends # None => hub'.sends < hub'.queue[i]
             /\ \A w \in Sockets : pushed'[w] < hub'.queue[i]
  <2>1. CASE hub'.queue[i] = e
    BY <1>1, <1>2, <1>3, <1>6, <1>7, <1>8, <2>1
  <2>2. CASE \E j \in 1 .. Len(q) : hub'.queue[i] = q[j]
    <3>1. PICK j \in 1 .. Len(q) : hub'.queue[i] = q[j]
      BY <2>2
    <3>2. q[j] <= published /\ (hub.sends # None => hub.sends < q[j]) /\ \A w \in Sockets : pushed[w] < q[j]
      BY DEF Ascending
    <3>3. q[j] \in Nat
      BY HubFacts
    <3> HIDE DEF q
    <3> QED BY <1>1, <1>2, <1>3, <1>8, <3>1, <3>2, <3>3
  <2> QED BY <1>4, <2>1, <2>2
<1>10. Ascending'
  <2>1. \A w \in Sockets : pushed'[w] <= published'
    BY <1>1, <1>2, <1>6, <1>8
  <2>2. hub'.sends # None => hub'.sends <= published'
    BY <1>1, <1>2, <1>3, <1>7, <1>8
  <2>3. \A w \in hub'.waits : hub'.sends # None /\ pushed'[w] < hub'.sends
    BY <1>1, <1>3 DEF Ascending
  <2> QED BY <1>4, <1>9, <2>1, <2>2, <2>3 DEF Ascending, Up
<1> QED BY <1>5, <1>10

LEMMA DrainHub ==
  ASSUME HubTyped, Ascending, Drain
  PROVE  HubTyped' /\ Ascending'
<1> DEFINE q == hub.queue
           e == Head(q)
           to == {w \in Sockets : TopicOf[e] \in topics[w]}
           now == IF to = {} THEN None ELSE e
<1>1. /\ hub' = [queue |-> Tail(q), sends |-> now, waits |-> to] /\ q # <<>>
      /\ UNCHANGED <<published, topics, pushed>>
  BY DEF Drain
<1>2. /\ to \subseteq Sockets /\ now \in {e, None} /\ (to # {} => now = e)
  OBVIOUS
<1> HIDE DEF to, now
<1>3. /\ published \in Nat /\ q \in Seq(Numbers) /\ Len(q) <= Capacity /\ Up(q)
      /\ \A i \in 1 .. Len(q) : q[i] \in Nat /\ q[i] <= published
      /\ \A i \in 1 .. Len(q) : \A w \in Sockets : pushed[w] < q[i]
      /\ \A w \in Sockets : pushed[w] \in Nat /\ pushed[w] <= published
  BY HubFacts DEF Ascending
<1> HIDE DEF q
<1>4. /\ Tail(q) \in Seq(Numbers) /\ Len(Tail(q)) = Len(q) - 1 /\ Len(q) \in Nat \ {0}
      /\ Up(Tail(q)) /\ e = q[1] /\ e \in Numbers
      /\ \A i \in 1 .. Len(Tail(q)) :
           i + 1 \in 1 .. Len(q) /\ Tail(q)[i] = q[i + 1] /\ e < Tail(q)[i]
  BY <1>1, <1>3, TailUp
<1>5. e <= published /\ \A w \in Sockets : pushed[w] < e
  BY <1>3, <1>4
<1> HIDE DEF e
<1>6. hub'.queue = Tail(q) /\ hub'.sends = now /\ hub'.waits = to
  BY <1>1
<1>7. None \notin Numbers
  BY ConstantsAssumption, NumbersType
<1>8. HubTyped'
  <2>1. hub' \in [queue : Seq(Numbers), sends : Numbers \cup {None}, waits : SUBSET Sockets]
    BY <1>1, <1>2, <1>4
  <2>2. Len(hub'.queue) <= Capacity
    BY <1>3, <1>4, <1>6, ConstantsAssumption
  <2> QED BY <1>1, <2>1, <2>2 DEF HubTyped
<1>9. ASSUME NEW i \in 1 .. Len(hub'.queue)
      PROVE  /\ hub'.queue[i] <= published'
             /\ hub'.sends # None => hub'.sends < hub'.queue[i]
             /\ \A w \in Sockets : pushed'[w] < hub'.queue[i]
  <2>1. hub'.queue[i] = q[i + 1] /\ i + 1 \in 1 .. Len(q) /\ e < hub'.queue[i]
    BY <1>4, <1>6
  <2> QED BY <1>1, <1>2, <1>3, <1>6, <2>1
<1>10. /\ \A w \in Sockets : pushed'[w] <= published'
       /\ hub'.sends # None => hub'.sends <= published'
       /\ \A w \in hub'.waits : hub'.sends # None /\ pushed'[w] < hub'.sends
  BY <1>1, <1>2, <1>3, <1>4, <1>5, <1>6, <1>7
<1>11. Up(hub'.queue)
  BY <1>4, <1>6
<1> QED BY <1>8, <1>9, <1>10, <1>11 DEF Ascending, Up

\* The end of one send leaves the queue, and waits only for sockets it waited for.
LEMMA AnsweredHub ==
  ASSUME HubTyped, NEW w \in hub.waits
  PROVE  /\ Answered(w) \in [queue : Seq(Numbers), sends : Numbers \cup {None}, waits : SUBSET Sockets]
         /\ Answered(w).queue = hub.queue
         /\ Answered(w).sends = hub.sends \/ (Answered(w).sends = None /\ Answered(w).waits = {})
         /\ Answered(w).waits \subseteq hub.waits \ {w}
<1>1. CASE hub.waits = {w}
  <2>1. Answered(w) = [hub EXCEPT !.sends = None, !.waits = {}]
    BY <1>1 DEF Answered
  <2> QED BY <2>1 DEF HubTyped
<1>2. CASE hub.waits # {w}
  <2>1. Answered(w) = [hub EXCEPT !.waits = hub.waits \ {w}]
    BY <1>2 DEF Answered
  <2> QED BY <2>1 DEF HubTyped
<1> QED BY <1>1, <1>2

LEMMA SendHub ==
  ASSUME HubTyped, Ascending, NEW w \in Sockets, Send(w)
  PROVE  HubTyped' /\ Ascending' /\ pushed'[w] > pushed[w]
                  /\ \A v \in Sockets \ {w} : pushed'[v] = pushed[v]
<1> DEFINE e == hub.sends
<1>1. /\ w \in hub.waits /\ pushed' = [pushed EXCEPT ![w] = e] /\ hub' = Answered(w)
      /\ UNCHANGED <<published, topics>>
  BY DEF Send
<1>2. /\ e # None /\ e \in Nat /\ e <= published /\ pushed[w] < e
      /\ \A v \in Sockets : pushed[v] \in Nat /\ pushed[v] <= published
      /\ \A i \in 1 .. Len(hub.queue) : e < hub.queue[i]
  BY <1>1, HubFacts DEF Ascending
<1>3. /\ e \in 0 .. MaxEvents /\ pushed \in [Sockets -> 0 .. MaxEvents]
  BY <1>2, NumbersType DEF HubTyped
<1> HIDE DEF e
<1>4. /\ pushed' \in [Sockets -> 0 .. MaxEvents] /\ pushed'[w] = e
      /\ \A v \in Sockets \ {w} : pushed'[v] = pushed[v]
  BY <1>1, <1>3
<1>5. /\ hub' \in [queue : Seq(Numbers), sends : Numbers \cup {None}, waits : SUBSET Sockets]
      /\ hub'.queue = hub.queue
      /\ hub'.sends = e \/ (hub'.sends = None /\ hub'.waits = {})
      /\ hub'.waits \subseteq hub.waits \ {w}
  BY <1>1, AnsweredHub DEF e
<1>6. HubTyped'
  BY <1>1, <1>4, <1>5 DEF HubTyped
<1>7. /\ \A i, j \in 1 .. Len(hub'.queue) : i < j => hub'.queue[i] < hub'.queue[j]
      /\ \A i \in 1 .. Len(hub'.queue) : hub'.queue[i] <= published'
  BY <1>1, <1>5 DEF Ascending
<1>8. ASSUME NEW i \in 1 .. Len(hub'.queue)
      PROVE  /\ hub'.sends # None => hub'.sends < hub'.queue[i]
             /\ \A v \in Sockets : pushed'[v] < hub'.queue[i]
  <2>1. hub'.sends # None => hub'.sends < hub'.queue[i]
    BY <1>2, <1>5
  <2>2. ASSUME NEW v \in Sockets
        PROVE  pushed'[v] < hub'.queue[i]
    <3>1. CASE v = w
      BY <1>2, <1>4, <1>5, <3>1
    <3>2. CASE v # w
      BY <1>4, <1>5, <3>2 DEF Ascending
    <3> QED BY <3>1, <3>2
  <2> QED BY <2>1, <2>2
<1>9. \A v \in Sockets : pushed'[v] <= published'
  BY <1>1, <1>2, <1>4
<1>10. hub'.sends # None => hub'.sends <= published'
  BY <1>1, <1>2, <1>5
<1>11. ASSUME NEW v \in hub'.waits
       PROVE  hub'.sends # None /\ pushed'[v] < hub'.sends
  <2>1. v \in hub.waits /\ v # w /\ v \in Sockets /\ hub'.sends = e
    BY <1>5 DEF HubTyped
  <2>2. pushed[v] < e
    BY <2>1 DEF Ascending, e
  <2> QED BY <1>2, <1>4, <2>1, <2>2
<1>12. Ascending'
  BY <1>7, <1>8, <1>9, <1>10, <1>11 DEF Ascending
<1> QED BY <1>2, <1>4, <1>6, <1>12

LEMMA SendFailsHub ==
  ASSUME HubTyped, Ascending, NEW w \in Sockets, SendFails(w)
  PROVE  HubTyped' /\ Ascending'
<1>1. /\ w \in hub.waits /\ topics' = [topics EXCEPT ![w] = {}] /\ hub' = Answered(w)
      /\ UNCHANGED <<published, pushed>>
  BY DEF SendFails
<1>2. /\ hub' \in [queue : Seq(Numbers), sends : Numbers \cup {None}, waits : SUBSET Sockets]
      /\ hub'.queue = hub.queue
      /\ hub'.sends = hub.sends \/ (hub'.sends = None /\ hub'.waits = {})
      /\ hub'.waits \subseteq hub.waits \ {w}
  BY <1>1, AnsweredHub
<1>3. HubTyped'
  BY <1>1, <1>2 DEF HubTyped
<1>4. Ascending'
  BY <1>1, <1>2 DEF Ascending
<1> QED BY <1>3, <1>4

LEMMA SameHub ==
  ASSUME HubTyped, Ascending, UNCHANGED <<published, hub, pushed>>,
         topics' \in [Sockets -> SUBSET Topics]
  PROVE  HubTyped' /\ Ascending'
BY DEF HubTyped, Ascending

----------------------------------------------------------------------------
(* Theorems. *)

InOrder == \A w \in Sockets : pushed'[w] # pushed[w] => pushed'[w] > pushed[w]

LEMMA InitInv == PushInit => PushInv
<1> SUFFICES ASSUME PushInit PROVE PushInv
  OBVIOUS
<1>1. StreamsSound
  <2>1. stream = [c \in Streams |-> NoListener]
    BY DEF PushInit
  <2>2. NoListener \in Listeners /\ ~NoListener.on
    BY NoListenerSound DEF Sound, NoListener
  <2>3. Listening = {}
    BY <2>1, <2>2 DEF Listening
  <2> QED BY <2>1, <2>2, <2>3, NoListenerSound, FS_EmptySet, ConstantsAssumption DEF StreamsSound
<1>2. <<>> \in Seq(Numbers) /\ Len(<<>>) = 0
  OBVIOUS
<1>3. HubTyped
  BY <1>2, MaxEventsType, ConstantsAssumption DEF PushInit, HubTyped
<1>4. Ascending
  BY <1>2 DEF PushInit, Ascending
<1> QED BY <1>1, <1>3, <1>4 DEF PushInv

\* Every step keeps the invariant, and none sends a socket what is not newer.
LEMMA StepInv ==
  ASSUME PushInv, [PushNext]_push_vars
  PROVE  PushInv' /\ InOrder
<1>1. StreamsSound /\ HubTyped /\ Ascending
  BY DEF PushInv
<1>2. CASE Broadcast
  BY <1>1, <1>2, BroadcastStreams, BroadcastHub DEF PushInv, Broadcast, InOrder
<1>3. CASE \E c \in Streams, types \in SUBSET Topics \ {{}} : Register(c, types)
  <2>1. UNCHANGED <<published, hub, topics, pushed>>
    BY <1>3 DEF Register
  <2>2. topics' \in [Sockets -> SUBSET Topics]
    BY <1>1, <2>1 DEF HubTyped
  <2> QED BY <1>1, <1>3, <2>1, <2>2, RegisterStreams, SameHub DEF PushInv, InOrder
<1>4. CASE \E c \in Streams : Read(c) \/ Unregister(c)
  <2>1. UNCHANGED <<published, hub, topics, pushed>>
    BY <1>4 DEF Read, Unregister
  <2>2. topics' \in [Sockets -> SUBSET Topics]
    BY <1>1, <2>1 DEF HubTyped
  <2> QED BY <1>1, <1>4, <2>1, <2>2, ReadStreams, UnregisterStreams, SameHub DEF PushInv, InOrder
<1>5. CASE \E w \in Sockets : Send(w)
  <2>1. PICK w \in Sockets : Send(w)
    BY <1>5
  <2>2. UNCHANGED stream
    BY <2>1 DEF Send
  <2>3. InOrder
    BY <1>1, <2>1, SendHub DEF InOrder
  <2> QED BY <1>1, <2>1, <2>2, <2>3, SendHub, SameStreams DEF PushInv
<1>6. CASE \E w \in Sockets : SendFails(w)
  <2>1. UNCHANGED <<stream, pushed>>
    BY <1>6 DEF SendFails
  <2> QED BY <1>1, <1>6, <2>1, SendFailsHub, SameStreams DEF PushInv, InOrder
<1>7. CASE \E w \in Sockets, t \in Topics : Subscribe(w, t) \/ Unsubscribe(w, t)
  <2>1. UNCHANGED <<published, stream, hub, pushed>>
    BY <1>7 DEF Subscribe, Unsubscribe
  <2>2. topics' \in [Sockets -> SUBSET Topics]
    BY <1>1, <1>7 DEF Subscribe, Unsubscribe, HubTyped
  <2> QED BY <1>1, <2>1, <2>2, SameStreams, SameHub DEF PushInv, InOrder
<1>8. CASE Drain
  <2>1. UNCHANGED <<stream, pushed>>
    BY <1>8 DEF Drain
  <2> QED BY <1>1, <1>8, <2>1, DrainHub, SameStreams DEF PushInv, InOrder
<1>9. CASE UNCHANGED push_vars
  <2>1. UNCHANGED <<published, stream, hub, topics, pushed>>
    BY <1>9 DEF push_vars
  <2>2. topics' \in [Sockets -> SUBSET Topics]
    BY <1>1, <2>1 DEF HubTyped
  <2> QED BY <1>1, <2>1, <2>2, SameStreams, SameHub DEF PushInv, InOrder
<1> QED BY <1>2, <1>3, <1>4, <1>5, <1>6, <1>7, <1>8, <1>9 DEF PushNext

\* The inductive invariant: the counts of every stream add up, the hub is typed and the
\* queues are in order.  (broadcast, _on_event)
THEOREM PushInvariance == PushSpec => []PushInv
<1>1. PushInv /\ [PushNext]_push_vars => PushInv'
  BY StepInv
<1> QED BY <1>1, InitInv, PTL DEF PushSpec

\* Every variable keeps its type, and no queue exceeds its capacity.
THEOREM PushTypeCorrect == PushSpec => []PushTypeOK
<1>1. PushInv => PushTypeOK
  <2> SUFFICES ASSUME PushInv PROVE PushTypeOK
    OBVIOUS
  <2>1. published \in 0 .. MaxEvents /\ Cardinality(Listening) <= SoftCap
    BY DEF PushInv, HubTyped, StreamsSound
  <2>2. ASSUME NEW c \in Streams
        PROVE  /\ stream[c].on \in BOOLEAN /\ stream[c].lag \in BOOLEAN /\ stream[c].told \in BOOLEAN
               /\ Len(stream[c].queue) <= Capacity
               /\ {stream[c].dropped, stream[c].lost, stream[c].got} \subseteq Nat
    <3>1. stream[c] \in Listeners /\ Len(stream[c].queue) <= Capacity
      BY DEF PushInv, StreamsSound, Sound
    <3> QED BY <3>1, MaxEventsType DEF Listeners
  <2>3. /\ Len(hub.queue) <= Capacity /\ hub.waits \subseteq Sockets
        /\ topics \in [Sockets -> SUBSET Topics] /\ pushed \in [Sockets -> 0 .. MaxEvents]
    BY DEF PushInv, HubTyped
  <2> QED BY <2>1, <2>2, <2>3 DEF PushTypeOK
<1> QED BY <1>1, PushInvariance, PTL

\* What the client of a stream never sees is counted as dropped.  (broadcast, _drop_oldest)
THEOREM LossesAreCounted == PushSpec => []LossIsCounted
<1>1. PushInv => LossIsCounted
  BY DEF PushInv, StreamsSound, Sound, LossIsCounted
<1> QED BY <1>1, PushInvariance, PTL

\* A web socket is sent events in the order of publishing, none of them twice.
\* (_on_event, _drain_loop)
THEOREM SentInOrder == PushSpec => PushedInOrder
<1>1. PushInv /\ [PushNext]_push_vars => [InOrder]_pushed
  BY StepInv
<1> QED BY <1>1, PushInvariance, PTL DEF PushSpec, PushedInOrder, InOrder

----------------------------------------------------------------------------
(* Finite sets of numbers. *)

\* The rank of a number among others: a greater one has a greater rank.
LEMMA RankGrows ==
  ASSUME NEW S \in SUBSET Nat, IsFiniteSet(S), NEW x \in S, NEW y \in S, x < y
  PROVE  Rank(S, x) < Rank(S, y)
<1> DEFINE A == {z \in S : z < x}
           B == {z \in S : z < y}
<1>1. A \in SUBSET S /\ B \in SUBSET S /\ x \notin A
  OBVIOUS
<1>0. A \cup {x} \subseteq B
  <2>1. \A z \in A : z \in Int /\ x \in Int /\ y \in Int /\ z < x /\ z \in S
    OBVIOUS
  <2>2. \A z \in A : z \in B
    BY <2>1
  <2> QED BY <2>2
<1>2. Rank(S, x) = Cardinality(A) /\ Rank(S, y) = Cardinality(B)
  BY DEF Rank
<1> HIDE DEF A, B
<1>3. IsFiniteSet(A) /\ IsFiniteSet(B) /\ Cardinality(A) \in Nat /\ Cardinality(B) \in Nat
  BY <1>1, FS_Subset, FS_CardinalityType
<1>4. Cardinality(A \cup {x}) = Cardinality(A) + 1
  BY <1>1, <1>3, FS_AddElement
<1>5. Cardinality(A \cup {x}) <= Cardinality(B)
  BY <1>0, <1>1, <1>3, FS_Subset
<1> QED BY <1>2, <1>3, <1>4, <1>5

\* A rank is one of the first numbers, one for every member.
LEMMA RankBelow ==
  ASSUME NEW S \in SUBSET Nat, IsFiniteSet(S), NEW x \in S
  PROVE  Cardinality(S) \in Nat /\ Rank(S, x) \in 0 .. Cardinality(S) - 1
<1> DEFINE A == {z \in S : z < x}
<1>1. A \in SUBSET S /\ x \notin A /\ A \cup {x} \subseteq S
  OBVIOUS
<1>2. Rank(S, x) = Cardinality(A)
  BY DEF Rank
<1> HIDE DEF A
<1>3. IsFiniteSet(A) /\ Cardinality(A) \in Nat /\ Cardinality(S) \in Nat
  BY <1>1, FS_Subset, FS_CardinalityType
<1>4. Cardinality(A) + 1 <= Cardinality(S)
  <2>1. Cardinality(A \cup {x}) = Cardinality(A) + 1
    BY <1>1, <1>3, FS_AddElement
  <2>2. Cardinality(A \cup {x}) <= Cardinality(S)
    BY <1>1, FS_Subset
  <2> QED BY <2>1, <2>2
<1> QED BY <1>2, <1>3, <1>4

\* No two members have the same rank.
LEMMA RankTells ==
  ASSUME NEW S \in SUBSET Nat, IsFiniteSet(S), NEW x \in S, NEW y \in S,
         Rank(S, x) = Rank(S, y)
  PROVE  x = y
<1>1. Rank(S, x) \in Int /\ Rank(S, y) \in Int /\ x \in Int /\ y \in Int
  BY RankBelow
<1>2. ~ (x < y) /\ ~ (y < x)
  BY <1>1, RankGrows
<1> QED BY <1>1, <1>2

\* Every rank is somebody's.
LEMMA RankMet ==
  ASSUME NEW S \in SUBSET Nat, IsFiniteSet(S), NEW n \in 1 .. Cardinality(S)
  PROVE  \E x \in S : Rank(S, x) = n - 1
<1> DEFINE rank == [x \in S |-> Rank(S, x) + 1]
           N == 1 .. Cardinality(S)
<1>1. Cardinality(S) \in Nat
  BY FS_CardinalityType
<1>2. \A x \in S : rank[x] \in N /\ rank[x] = Rank(S, x) + 1 /\ Rank(S, x) \in Nat
  BY RankBelow
<1>3. \A x, y \in S : rank[x] = rank[y] => x = y
  BY <1>2, RankTells
<1>4. rank \in [S -> N]
  BY <1>2
<1> HIDE DEF rank
<1>5. rank \in Injection(S, N)
  BY <1>3, <1>4 DEF Injection, IsInjective
<1>6. IsFiniteSet(N) /\ Cardinality(N) = Cardinality(S)
  BY <1>1, FS_Interval
<1> HIDE DEF N
<1>7. rank \in Surjection(S, N)
  BY <1>5, <1>6, FS_Injection
<1>8. PICK x \in S : rank[x] = n
  BY <1>7 DEF Surjection, N
<1> QED BY <1>2, <1>8

\* Numbers from the least to the greatest: each of them, once.
LEMMA AgedIs ==
  ASSUME NEW S \in SUBSET Nat, IsFiniteSet(S)
  PROVE  /\ Aged(S) \in Seq(S) /\ Len(Aged(S)) = Cardinality(S) /\ Cardinality(S) \in Nat
         /\ DOMAIN Aged(S) = 1 .. Cardinality(S)
         /\ Range(Aged(S)) = S
         /\ IsInjective(Aged(S))
<1> DEFINE N == 1 .. Cardinality(S)
           f == Aged(S)
<1>1. Cardinality(S) \in Nat /\ f = [n \in N |-> CHOOSE x \in S : Rank(S, x) = n - 1]
  BY FS_CardinalityType DEF Aged
<1>2. \A n \in N : f[n] \in S /\ Rank(S, f[n]) = n - 1
  BY <1>1, RankMet
<1>3. DOMAIN f = N /\ f \in [N -> S]
  BY <1>1, <1>2
<1> HIDE DEF f
<1>4. f \in Seq(S) /\ Len(f) = Cardinality(S)
  <2>1. \A n \in Nat : \A g \in [1 .. n -> S] : g \in Seq(S) /\ Len(g) = n
    OBVIOUS
  <2> QED BY <1>1, <1>3, <2>1
<1>5. IsInjective(f)
  <2>1. \A m, n \in N : f[m] = f[n] => m = n
    BY <1>1, <1>2
  <2> QED BY <1>3, <2>1 DEF IsInjective
<1>6. ASSUME NEW x \in S
      PROVE  \E n \in N : f[n] = x
  <2>1. PICK n \in N : Rank(S, x) = n - 1
    <3>1. Rank(S, x) + 1 \in N /\ Rank(S, x) = (Rank(S, x) + 1) - 1
      BY RankBelow
    <3> QED BY <3>1
  <2>2. PICK y \in S : y = f[n]
    BY <1>2, <2>1
  <2>3. x = y
    BY <1>2, <2>1, <2>2, RankTells
  <2> QED BY <2>2, <2>3
<1>7. Range(f) = S
  BY <1>2, <1>3, <1>6 DEF Range
<1> QED BY <1>1, <1>3, <1>4, <1>5, <1>7 DEF f

\* A finite set of numbers has a greatest one.
LEMMA GreatestOf ==
  ASSUME NEW S \in SUBSET Nat, IsFiniteSet(S), S # {}
  PROVE  \E x \in S : \A y \in S : y <= x
<1>1. Cardinality(S) \in Nat \ {0}
  BY FS_CardinalityType, FS_EmptySet
<1>2. PICK x \in S : Rank(S, x) = Cardinality(S) - 1
  BY <1>1, RankMet
<1>3. ASSUME NEW y \in S, x < y
      PROVE  FALSE
  BY <1>1, <1>2, <1>3, RankGrows, RankBelow
<1> QED BY <1>3

----------------------------------------------------------------------------
(* Sequences and what they hold. *)

\* A sequence with one element more at its end.
LEMMA RangeAppended ==
  ASSUME NEW S, NEW s \in Seq(S), NEW x \in S
  PROVE  /\ Append(s, x) \in Seq(S) /\ Len(Append(s, x)) = Len(s) + 1
         /\ Range(Append(s, x)) = Range(s) \cup {x}
         /\ IsInjective(s) /\ x \notin Range(s) => IsInjective(Append(s, x))
<1> DEFINE t == Append(s, x)
<1>1. /\ t \in Seq(S) /\ Len(t) = Len(s) + 1 /\ Len(s) \in Nat
      /\ DOMAIN t = 1 .. Len(s) + 1 /\ DOMAIN s = 1 .. Len(s)
      /\ \A i \in 1 .. Len(s) : t[i] = s[i]
      /\ t[Len(s) + 1] = x
  BY AppendProperties, LenProperties
<1> HIDE DEF t
<1>2. Range(t) = Range(s) \cup {x}
  BY <1>1 DEF Range
<1>3. IsInjective(s) /\ x \notin Range(s) => IsInjective(t)
  BY <1>1 DEF IsInjective, Range
<1> QED BY <1>1, <1>2, <1>3 DEF t

\* A sequence is its head and what follows it.
LEMMA RangeOfTail ==
  ASSUME NEW S, NEW s \in Seq(S), s # <<>>
  PROVE  /\ Tail(s) \in Seq(S) /\ Head(s) \in S /\ Len(s) \in Nat \ {0}
         /\ Len(Tail(s)) = Len(s) - 1 /\ Head(s) = s[1] /\ Head(s) \in Range(s)
         /\ \A i \in 1 .. Len(s) - 1 : Tail(s)[i] = s[i + 1]
         /\ DOMAIN Tail(s) = 1 .. Len(s) - 1 /\ DOMAIN s = 1 .. Len(s)
         /\ Range(s) = Range(Tail(s)) \cup {Head(s)}
         /\ IsInjective(s) => IsInjective(Tail(s)) /\ Head(s) \notin Range(Tail(s))
<1> DEFINE t == Tail(s)
           h == Head(s)
<1>1. /\ t \in Seq(S) /\ h \in S /\ Len(s) \in Nat \ {0}
      /\ Len(t) = Len(s) - 1 /\ h = s[1]
      /\ DOMAIN t = 1 .. Len(s) - 1 /\ DOMAIN s = 1 .. Len(s)
      /\ \A i \in 1 .. Len(s) - 1 : t[i] = s[i + 1]
  BY HeadTailProperties, EmptySeq, LenProperties
<1> HIDE DEF t, h
<1>2. h \in Range(s)
  BY <1>1 DEF Range
<1>3. Range(t) \subseteq Range(s)
  BY <1>1 DEF Range
<1>4. ASSUME NEW x \in Range(s), x # h
      PROVE  x \in Range(t)
  <2>1. PICK i \in 1 .. Len(s) : s[i] = x
    BY <1>1 DEF Range
  <2>2. i - 1 \in 1 .. Len(s) - 1 /\ t[i - 1] = x
    BY <1>1, <1>4, <2>1
  <2> QED BY <1>1, <2>2 DEF Range
<1>5. IsInjective(s) => IsInjective(t) /\ h \notin Range(t)
  <2> SUFFICES ASSUME IsInjective(s)
               PROVE  IsInjective(t) /\ h \notin Range(t)
    OBVIOUS
  <2>1. \A i, j \in 1 .. Len(s) : s[i] = s[j] => i = j
    BY <1>1 DEF IsInjective
  <2>2. \A i \in 1 .. Len(s) - 1 : i + 1 \in 1 .. Len(s) /\ i + 1 # 1 /\ t[i] = s[i + 1]
    BY <1>1
  <2>3. \A i, j \in 1 .. Len(s) - 1 : t[i] = t[j] => i = j
    BY <2>1, <2>2
  <2>4. \A i \in 1 .. Len(s) - 1 : t[i] # h
    <3>1. 1 \in 1 .. Len(s)
      BY <1>1
    <3> QED BY <1>1, <2>1, <2>2, <3>1
  <2> QED BY <1>1, <2>3, <2>4 DEF IsInjective, Range
<1> QED BY <1>1, <1>2, <1>3, <1>4, <1>5 DEF t, h

\* A concatenation has what both have, and nothing twice if neither nor both do.
LEMMA Concatenated ==
  ASSUME NEW S, NEW s \in Seq(S), NEW t \in Seq(S)
  PROVE  /\ s \o t \in Seq(S) /\ Len(s \o t) = Len(s) + Len(t)
         /\ Range(s \o t) = Range(s) \cup Range(t)
         /\ IsInjective(s) /\ IsInjective(t) /\ Range(s) \cap Range(t) = {}
              => IsInjective(s \o t)
<1> DEFINE u == s \o t
<1>1. /\ u \in Seq(S) /\ Len(u) = Len(s) + Len(t) /\ Len(s) \in Nat /\ Len(t) \in Nat
      /\ DOMAIN u = 1 .. Len(s) + Len(t) /\ DOMAIN s = 1 .. Len(s) /\ DOMAIN t = 1 .. Len(t)
      /\ \A i \in 1 .. Len(s) + Len(t) : u[i] = IF i <= Len(s) THEN s[i] ELSE t[i - Len(s)]
  BY ConcatProperties, LenProperties
<1>2. Range(u) = Range(s) \cup Range(t)
  BY RangeConcatenation
<1> HIDE DEF u
<1>3. ASSUME IsInjective(s), IsInjective(t), Range(s) \cap Range(t) = {},
             NEW i \in DOMAIN u, NEW j \in DOMAIN u, u[i] = u[j]
      PROVE  i = j
  <2>1. i \in Int /\ j \in Int
    BY <1>1
  <2>2. CASE i <= Len(s) /\ j <= Len(s)
    <3>1. i \in DOMAIN s /\ j \in DOMAIN s /\ s[i] = s[j]
      BY <1>1, <1>3, <2>2
    <3> QED BY <1>3, <3>1 DEF IsInjective
  <2>3. CASE ~ (i <= Len(s)) /\ ~ (j <= Len(s))
    <3>1. i - Len(s) \in DOMAIN t /\ j - Len(s) \in DOMAIN t
      BY <1>1, <1>3, <2>3
    <3>2. t[i - Len(s)] = t[j - Len(s)]
      BY <1>1, <1>3, <2>3
    <3>3. i - Len(s) = j - Len(s)
      BY <1>3, <3>1, <3>2 DEF IsInjective
    <3> QED BY <1>1, <2>1, <3>3
  <2>4. CASE i <= Len(s) /\ ~ (j <= Len(s))
    <3>1. i \in DOMAIN s /\ j - Len(s) \in DOMAIN t /\ s[i] = t[j - Len(s)]
      BY <1>1, <1>3, <2>4
    <3> QED BY <1>3, <3>1 DEF Range
  <2>5. CASE ~ (i <= Len(s)) /\ j <= Len(s)
    <3>1. j \in DOMAIN s /\ i - Len(s) \in DOMAIN t /\ s[j] = t[i - Len(s)]
      BY <1>1, <1>3, <2>5
    <3> QED BY <1>3, <3>1 DEF Range
  <2> QED BY <2>2, <2>3, <2>4, <2>5
<1>4. IsInjective(s) /\ IsInjective(t) /\ Range(s) \cap Range(t) = {} => IsInjective(u)
  <2>1. IsInjective(u) <=> \A i, j \in DOMAIN u : u[i] = u[j] => i = j
    BY DEF IsInjective
  <2> QED BY <1>3, <2>1
<1> QED BY <1>1, <1>2, <1>4 DEF u

----------------------------------------------------------------------------
(* The outbox between any two steps.  C are the ids of the critical        *)
(* events put so far, O those of them that must still be kept.             *)

\* An event known as queued is in the ready queue and has no retained copy.
QueuedTold(b) ==
  \A id \in b.queued : /\ id \in Range(b.ready.urgent) \cup Range(b.ready.low)
                       /\ b.retained[id] = Nothing

\* The merge index leads to stored events of its keys.
IndexTold(b) ==
  \A k \in MergeKeys : b.index[k] # 0 =>
    b.stored[b.index[k]] # Nothing /\ KeyOf[b.stored[b.index[k]].what] = k

\* Beyond its size the retained area holds critical events only.
Fits(b) ==
  Cardinality(RetainedIds(b)) > MaxSize => \A id \in RetainedIds(b) : Critical(b.retained[id])

\* Whatever an id's event says in the course of merges, it stays critical or not.
KindsTold(b, C) ==
  \A id \in Ids : /\ b.stored[id] # Nothing => (Critical(b.stored[id]) <=> id \in C)
                  /\ b.retained[id] # Nothing => (Critical(b.retained[id]) <=> id \in C)

\* The urgent lane has each open critical event at most once, the low lane none.
LanesTold(b, C, O) ==
  /\ Range(b.ready.urgent) \subseteq O
  /\ Range(b.ready.low) \cap C = {}
  /\ IsInjective(b.ready.urgent)

\* A retained critical event is open and not in the ready queue as well.
OnePlace(b, C, O) ==
  \A id \in C : b.retained[id] # Nothing => id \in O /\ id \notin Range(b.ready.urgent)

\* What is stored and retained is as given, but for events that are not critical and were
\* evicted.
Spared(b, was, kept, C) ==
  \A id \in Ids :
    \/ b.stored[id] = was[id] /\ b.retained[id] = kept[id]
    \/ id \notin C /\ b.stored[id] = Nothing /\ b.retained[id] = Nothing

\* The retained events of up have been moved to the ready queue, each to its lane.
MovedUp(r, b, up, C) ==
  /\ r.stored = b.stored /\ r.index = b.index /\ r.queued = b.queued \cup up
  /\ r.retained = [id \in Ids |-> IF id \in up THEN Nothing ELSE b.retained[id]]
  /\ Range(r.ready.urgent) = Range(b.ready.urgent) \cup (up \cap C)
  /\ Range(r.ready.low) = Range(b.ready.low) \cup (up \ C)

\* All of these, with the types: what every operation of the outbox keeps.
BoxTold(b, C, O) ==
  /\ b \in Boxes
  /\ QueuedTold(b) /\ IndexTold(b) /\ KindsTold(b, C)
  /\ LanesTold(b, C, O) /\ OnePlace(b, C, O)

----------------------------------------------------------------------------
(* Operations of the outbox. *)

\* The ids are finitely many positive numbers.
LEMMA IdsAre == IsFiniteSet(Ids) /\ Ids \subseteq Nat \ {0}
BY SizesAssumption, FS_Interval DEF Ids

\* The depth of two lanes as one of them grows by an event.
LEMMA LensAdd ==
  ASSUME NEW u \in Seq(Ids), NEW l \in Seq(Ids)
  PROVE  /\ Len(u) + Len(l) \in Nat
         /\ \A id \in Ids : /\ Len(Append(u, id)) + Len(l) = Len(u) + Len(l) + 1
                            /\ Len(u) + Len(Append(l, id)) = Len(u) + Len(l) + 1
OBVIOUS

\* The depth of two lanes as both grow.
LEMMA LensGrow ==
  ASSUME NEW u \in Seq(Ids), NEW l \in Seq(Ids), NEW s \in Seq(Ids), NEW t \in Seq(Ids),
         NEW m \in Nat, NEW n \in Nat, Len(s) = Len(u) + m, Len(t) = Len(l) + n,
         NEW d, d = Len(u) + Len(l)
  PROVE  Len(s) + Len(t) = d + (m + n)
OBVIOUS

\* The depth of two lanes as one of them gives an event.
LEMMA LensShrink ==
  ASSUME NEW u \in Seq(Ids), NEW l \in Seq(Ids), NEW t \in Seq(Ids),
         NEW d, d = Len(u) + Len(l)
  PROVE  /\ Len(t) = Len(u) - 1 => Len(t) + Len(l) = d - 1
         /\ Len(t) = Len(l) - 1 => Len(u) + Len(t) = d - 1
OBVIOUS

\* The types of the fields of an outbox, and its depth and room as numbers.
LEMMA BoxParts ==
  ASSUME NEW b \in Boxes
  PROVE  /\ b.ready \in [urgent : Seq(Ids), low : Seq(Ids)]
         /\ b.ready.urgent \in Seq(Ids) /\ b.ready.low \in Seq(Ids)
         /\ b.stored \in [Ids -> Version \cup {Nothing}]
         /\ b.retained \in [Ids -> Version \cup {Nothing}]
         /\ b.queued \in SUBSET Ids
         /\ b.index \in [MergeKeys -> Ids \cup {0}]
         /\ Depth(b) = Len(b.ready.urgent) + Len(b.ready.low) /\ Depth(b) \in Nat
         /\ Room(b) = MaxSize - Depth(b) /\ Room(b) \in Int
<1>1. /\ b.ready \in [urgent : Seq(Ids), low : Seq(Ids)]
      /\ b.ready.urgent \in Seq(Ids) /\ b.ready.low \in Seq(Ids)
      /\ b.stored \in [Ids -> Version \cup {Nothing}]
      /\ b.retained \in [Ids -> Version \cup {Nothing}]
      /\ b.queued \in SUBSET Ids
      /\ b.index \in [MergeKeys -> Ids \cup {0}]
  BY DEF Boxes
<1>3. /\ Depth(b) = Len(b.ready.urgent) + Len(b.ready.low) /\ Depth(b) \in Nat
      /\ Room(b) = MaxSize - Depth(b) /\ Room(b) \in Int
  <2>1. Depth(b) = Len(b.ready.urgent) + Len(b.ready.low)
    BY DEF Depth
  <2>2. Depth(b) \in Nat
    BY <1>1, <2>1, LensAdd
  <2>3. Room(b) = MaxSize - Depth(b)
    BY DEF Room
  <2>4. MaxSize - Depth(b) \in Int
    BY <2>2, SizesAssumption
  <2> QED BY <2>1, <2>2, <2>3, <2>4
<1> QED BY <1>1, <1>3

\* No version is the absence of one.
LEMMA NotNothing == Nothing \notin Version
BY ContentsAssumption

\* The retained area shrinks, or stays, without getting over its size again.
LEMMA FitsStill ==
  ASSUME NEW b, NEW r, Fits(b), RetainedIds(r) \subseteq RetainedIds(b),
         \A id \in RetainedIds(r) : r.retained[id] = b.retained[id]
  PROVE  Fits(r)
<1>1. IsFiniteSet(RetainedIds(b)) /\ Cardinality(RetainedIds(b)) \in Nat
  <2>1. RetainedIds(b) \in SUBSET Ids
    BY DEF RetainedIds
  <2> QED BY <2>1, IdsAre, FS_Subset, FS_CardinalityType
<1>2. Cardinality(RetainedIds(r)) \in Nat /\ Cardinality(RetainedIds(r)) <= Cardinality(RetainedIds(b))
  BY <1>1, FS_Subset, FS_CardinalityType
<1> QED BY <1>1, <1>2, SizesAssumption DEF Fits

\* Eviction goes on until the area fits or has nothing left that may go.
LEMMA EvictionEnds ==
  ASSUME NEW b, QueuedTold(b), NEW m \in Evictable(b) \ Evicted(b)
  PROVE  Cardinality(RetainedIds(b) \ Evicted(b)) <= MaxSize
<1> DEFINE R == RetainedIds(b)
           S == Evictable(b) \ Evicted(b)
<1>1. R \in SUBSET Ids /\ Evictable(b) \in SUBSET R /\ Evicted(b) \in SUBSET Evictable(b)
  BY DEF RetainedIds, Evictable, Evicted, Unqueued
<1>2. IsFiniteSet(R) /\ Cardinality(R) \in Nat
  BY <1>1, IdsAre, FS_Subset, FS_CardinalityType
<1>3. S \in SUBSET Nat /\ IsFiniteSet(S) /\ S # {}
  BY <1>1, <1>2, IdsAre, FS_Subset
<1>4. PICK n \in S : \A x \in S : x <= n
  BY <1>3, GreatestOf
<1> DEFINE Later == {x \in Evictable(b) : x > n}
<1>5. Cardinality(R) - Cardinality(Later) <= MaxSize
  <2>1. ~ (Cardinality(R) - Cardinality(Later) > MaxSize)
    BY <1>4 DEF Evicted
  <2>2. IsFiniteSet(Later) /\ Cardinality(Later) \in Nat
    <3>1. Later \in SUBSET R
      BY <1>1
    <3> QED BY <1>2, <3>1, FS_Subset, FS_CardinalityType
  <2> QED BY <1>2, <2>1, <2>2, SizesAssumption
<1>6. Later \in SUBSET Evicted(b)
  <2>1. \A x \in Later : x \notin S
    BY <1>1, <1>3, <1>4, IdsAre
  <2> QED BY <2>1
<1>7. Later \in SUBSET R /\ R \ Evicted(b) \in SUBSET (R \ Later)
  BY <1>1, <1>6
<1> HIDE DEF Later, R
<1>8. /\ IsFiniteSet(R \ Later) /\ IsFiniteSet(Later) /\ R \cap Later = Later
      /\ Cardinality(R \ Later) = Cardinality(R) - Cardinality(R \cap Later)
  BY <1>2, <1>7, FS_Difference, FS_Subset
<1>9. Cardinality(R \ Evicted(b)) <= Cardinality(R \ Later) /\ Cardinality(R \ Evicted(b)) \in Nat
  BY <1>7, <1>8, FS_Subset, FS_CardinalityType
<1>10. Cardinality(R \ Later) \in Nat /\ Cardinality(R \ Later) <= MaxSize
  BY <1>5, <1>8, FS_CardinalityType
<1> QED BY <1>9, <1>10, SizesAssumption DEF R

\* _enforce_retained_capacity: only events that are not critical go, as long as there
\* are such and the area is beyond its size.
LEMMA EnforceCapacityKeeps ==
  ASSUME NEW b, NEW C \in SUBSET Ids, NEW O \in SUBSET C, BoxTold(b, C, O),
         NEW r, r = EnforceCapacity(b)
  PROVE  /\ BoxTold(r, C, O) /\ Fits(r)
         /\ r.ready = b.ready /\ r.queued = b.queued
         /\ Spared(r, b.stored, b.retained, C)
<1> DEFINE gone == Evicted(b)
<1>1. gone \in SUBSET Ids /\ gone \cap C = {} /\ gone \in SUBSET RetainedIds(b)
  BY DEF Evicted, Evictable, Unqueued, RetainedIds, BoxTold, KindsTold
<1>2. b \in Boxes
  BY DEF BoxTold
<1>3. /\ r.ready = b.ready /\ r.queued = b.queued
      /\ r.stored = [id \in Ids |-> IF id \in gone THEN Nothing ELSE b.stored[id]]
      /\ r.retained = [id \in Ids |-> IF id \in gone THEN Nothing ELSE b.retained[id]]
      /\ r.index = [k \in MergeKeys |-> IF b.index[k] \in gone THEN 0 ELSE b.index[k]]
      /\ DOMAIN r = DOMAIN b /\ r \in Boxes
  BY <1>2, BoxParts DEF EnforceCapacity, Unindexed, Boxes
<1> HIDE DEF gone
<1>4. \A id \in Ids : IF id \in gone THEN r.stored[id] = Nothing /\ r.retained[id] = Nothing
                      ELSE r.stored[id] = b.stored[id] /\ r.retained[id] = b.retained[id]
  BY <1>3
<1>5. QueuedTold(r)
  BY <1>3, <1>4, BoxParts, <1>2 DEF QueuedTold, BoxTold
<1>6. IndexTold(r)
  <2> SUFFICES ASSUME NEW k \in MergeKeys, r.index[k] # 0
               PROVE  r.stored[r.index[k]] # Nothing /\ KeyOf[r.stored[r.index[k]].what] = k
    BY DEF IndexTold
  <2>0. b.index \in [MergeKeys -> Ids \cup {0}]
    BY <1>2, BoxParts
  <2>1. r.index[k] = b.index[k] /\ b.index[k] \notin gone /\ b.index[k] \in Ids
    BY <1>3, <2>0
  <2> QED BY <1>4, <2>1 DEF BoxTold, IndexTold
<1>7. KindsTold(r, C)
  BY <1>4 DEF KindsTold, BoxTold
<1>8. LanesTold(r, C, O)
  BY <1>3 DEF LanesTold, BoxTold
<1>9. OnePlace(r, C, O)
  BY <1>1, <1>3, <1>4 DEF OnePlace, BoxTold
<1>11. Spared(r, b.stored, b.retained, C)
  <2> SUFFICES ASSUME NEW id \in Ids
               PROVE  \/ r.stored[id] = b.stored[id] /\ r.retained[id] = b.retained[id]
                      \/ id \notin C /\ r.stored[id] = Nothing /\ r.retained[id] = Nothing
    BY DEF Spared
  <2>1. CASE id \in gone
    BY <1>1, <1>4, <2>1
  <2>2. CASE id \notin gone
    BY <1>4, <2>2
  <2> QED BY <2>1, <2>2
<1>10. Fits(r)
  <2>1. RetainedIds(r) = RetainedIds(b) \ gone
    BY <1>4 DEF RetainedIds
  <2>2. ASSUME NEW id \in RetainedIds(r), ~ Critical(r.retained[id])
        PROVE  Cardinality(RetainedIds(r)) <= MaxSize
    <3>1. id \in Ids /\ id \in RetainedIds(b) /\ id \notin gone /\ ~ Critical(b.retained[id])
      BY <1>4, <2>1, <2>2 DEF RetainedIds
    <3>2. id \notin b.queued
      BY <3>1 DEF BoxTold, QueuedTold, RetainedIds
    <3>3. id \in Evictable(b) \ Evicted(b)
      BY <3>1, <3>2 DEF Evictable, Unqueued, gone
    <3> QED BY <2>1, <3>3, EvictionEnds DEF BoxTold, gone
  <2>3. Cardinality(RetainedIds(r)) \in Nat
    <3>1. RetainedIds(r) \in SUBSET Ids
      BY DEF RetainedIds
    <3> QED BY <3>1, IdsAre, FS_Subset, FS_CardinalityType
  <2> QED BY <2>2, <2>3, SizesAssumption DEF Fits
<1> QED BY <1>3, <1>5, <1>6, <1>7, <1>8, <1>9, <1>10, <1>11 DEF BoxTold

\* f is g, but for what it gives for id.
Replaced(f, g, id, v) == \A x \in Ids : f[x] = IF x = id THEN v ELSE g[x]

\* An event is stored, and what was retained of it is not any more.
StoredAs(r, b, id, v, C, O) ==
  /\ BoxTold(r, C, O) /\ (Fits(b) => Fits(r))
  /\ r.ready = b.ready /\ r.queued = b.queued
  /\ Replaced(r.stored, b.stored, id, v) /\ Replaced(r.retained, b.retained, id, Nothing)

\* store_pending: the event is stored and indexed, and nothing of its id is retained.
LEMMA StorePendingKeeps ==
  ASSUME NEW b, NEW C \in SUBSET Ids, NEW O \in SUBSET C, BoxTold(b, C, O),
         NEW id \in Ids, NEW e \in Version, Critical(e) <=> id \in C,
         b.stored[id] # Nothing => KeyOf[b.stored[id].what] = KeyOf[e.what],
         NEW r, r = StorePending(b, id, e)
  PROVE  StoredAs(r, b, id, e, C, O)
<1>1. b \in Boxes /\ e.what \in Contents
  BY DEF BoxTold, Version
<1>2. Indexed(b, id, e) \in [MergeKeys -> Ids \cup {0}]
  BY <1>1, BoxParts, ContentsAssumption DEF Indexed, Critical
<1>3. /\ r.ready = b.ready /\ r.queued = b.queued
      /\ r.stored = [b.stored EXCEPT ![id] = e]
      /\ r.retained = [b.retained EXCEPT ![id] = Nothing]
      /\ r.index = Indexed(b, id, e)
      /\ r \in Boxes
  BY <1>1, <1>2, BoxParts DEF StorePending, Boxes
<1>4. \A x \in Ids : /\ r.stored[x] = IF x = id THEN e ELSE b.stored[x]
                     /\ r.retained[x] = IF x = id THEN Nothing ELSE b.retained[x]
  BY <1>1, <1>3, BoxParts
<1>5. QueuedTold(r)
  BY <1>1, <1>3, <1>4, BoxParts DEF QueuedTold, BoxTold
<1>6. IndexTold(r)
  <2> SUFFICES ASSUME NEW k \in MergeKeys, r.index[k] # 0
               PROVE  r.stored[r.index[k]] # Nothing /\ KeyOf[r.stored[r.index[k]].what] = k
    BY DEF IndexTold
  <2>0. /\ b.index \in [MergeKeys -> Ids \cup {0}]
        /\ r.index[k] = IF ~ Critical(e) /\ k = KeyOf[e.what] THEN id ELSE b.index[k]
    <3>1. b.index \in [MergeKeys -> Ids \cup {0}]
      BY <1>1, BoxParts
    <3> QED BY <1>3, <3>1 DEF Indexed
  <2>1. CASE ~ Critical(e) /\ k = KeyOf[e.what]
    <3>1. r.index[k] = id
      BY <2>0, <2>1
    <3> QED BY <1>4, <2>1, <3>1, NotNothing
  <2>2. CASE Critical(e) \/ k # KeyOf[e.what]
    <3>1. r.index[k] = b.index[k] /\ b.index[k] \in Ids
      BY <2>0, <2>2
    <3>2. b.stored[b.index[k]] # Nothing /\ KeyOf[b.stored[b.index[k]].what] = k
      BY <3>1 DEF BoxTold, IndexTold
    <3>3. b.index[k] # id
      BY <2>2, <3>2, ContentsAssumption DEF Critical
    <3> QED BY <1>4, <3>1, <3>2, <3>3
  <2> QED BY <2>1, <2>2
<1>7. KindsTold(r, C)
  BY <1>4 DEF KindsTold, BoxTold
<1>8. LanesTold(r, C, O) /\ OnePlace(r, C, O)
  BY <1>3, <1>4 DEF LanesTold, OnePlace, BoxTold
<1>9. Fits(b) => Fits(r)
  BY <1>4, FitsStill DEF RetainedIds
<1> QED BY <1>3, <1>4, <1>5, <1>6, <1>7, <1>8, <1>9 DEF BoxTold, StoredAs, Replaced

\* store_retained: so is the event, if it is not evicted at once as one that may be.
LEMMA StoreRetainedKeeps ==
  ASSUME NEW b, NEW C \in SUBSET Ids, NEW O \in SUBSET C, BoxTold(b, C, O),
         NEW id \in Ids, NEW e \in Version, Critical(e) <=> id \in C,
         b.stored[id] # Nothing => KeyOf[b.stored[id].what] = KeyOf[e.what],
         id \notin b.queued, id \in C => id \in O /\ id \notin Range(b.ready.urgent),
         NEW r, r = StoreRetained(b, id, e)
  PROVE  /\ BoxTold(r, C, O) /\ Fits(r)
         /\ r.ready = b.ready /\ r.queued = b.queued
         /\ Spared(r, [b.stored EXCEPT ![id] = e], [b.retained EXCEPT ![id] = e], C)
<1> DEFINE s == [b EXCEPT !.stored[id] = e, !.retained[id] = e, !.index = Indexed(b, id, e)]
<1>1. b \in Boxes /\ e.what \in Contents
  BY DEF BoxTold, Version
<1>2. Indexed(b, id, e) \in [MergeKeys -> Ids \cup {0}]
  BY <1>1, BoxParts, ContentsAssumption DEF Indexed, Critical
<1>3. /\ s.ready = b.ready /\ s.queued = b.queued
      /\ s.stored = [b.stored EXCEPT ![id] = e]
      /\ s.retained = [b.retained EXCEPT ![id] = e]
      /\ s.index = Indexed(b, id, e)
      /\ s \in Boxes
  BY <1>1, <1>2, BoxParts DEF Boxes
<1>10. r = EnforceCapacity(s)
  BY DEF StoreRetained
<1> HIDE DEF s
<1>4. \A x \in Ids : /\ s.stored[x] = IF x = id THEN e ELSE b.stored[x]
                     /\ s.retained[x] = IF x = id THEN e ELSE b.retained[x]
  BY <1>1, <1>3, BoxParts
<1>5. QueuedTold(s)
  BY <1>1, <1>3, <1>4, BoxParts DEF QueuedTold, BoxTold
<1>6. IndexTold(s)
  <2> SUFFICES ASSUME NEW k \in MergeKeys, s.index[k] # 0
               PROVE  s.stored[s.index[k]] # Nothing /\ KeyOf[s.stored[s.index[k]].what] = k
    BY DEF IndexTold
  <2>0. /\ b.index \in [MergeKeys -> Ids \cup {0}]
        /\ s.index[k] = IF ~ Critical(e) /\ k = KeyOf[e.what] THEN id ELSE b.index[k]
    <3>1. b.index \in [MergeKeys -> Ids \cup {0}]
      BY <1>1, BoxParts
    <3> QED BY <1>3, <3>1 DEF Indexed
  <2>1. CASE ~ Critical(e) /\ k = KeyOf[e.what]
    <3>1. s.index[k] = id
      BY <2>0, <2>1
    <3> QED BY <1>4, <2>1, <3>1, NotNothing
  <2>2. CASE Critical(e) \/ k # KeyOf[e.what]
    <3>1. s.index[k] = b.index[k] /\ b.index[k] \in Ids
      BY <2>0, <2>2
    <3>2. b.stored[b.index[k]] # Nothing /\ KeyOf[b.stored[b.index[k]].what] = k
      BY <3>1 DEF BoxTold, IndexTold
    <3>3. b.index[k] # id
      BY <2>2, <3>2, ContentsAssumption DEF Critical
    <3> QED BY <1>4, <3>1, <3>2, <3>3
  <2> QED BY <2>1, <2>2
<1>7. KindsTold(s, C)
  BY <1>4 DEF KindsTold, BoxTold
<1>8. LanesTold(s, C, O) /\ OnePlace(s, C, O)
  BY <1>3, <1>4 DEF LanesTold, OnePlace, BoxTold
<1>9. BoxTold(s, C, O)
  BY <1>3, <1>5, <1>6, <1>7, <1>8 DEF BoxTold
<1>11. /\ BoxTold(r, C, O) /\ Fits(r)
       /\ r.ready = s.ready /\ r.queued = s.queued
       /\ Spared(r, s.stored, s.retained, C)
  BY <1>9, <1>10, EnforceCapacityKeeps
<1> QED BY <1>3, <1>11

\* put_nowait of the ready queue appends the id to the lane of its priority.
LEMMA EnterAdds ==
  ASSUME NEW b \in Boxes, NEW id \in Ids, NEW e
  PROVE  LET r == Enter(b, id, e) IN
         /\ r \in Boxes /\ Depth(r) = Depth(b) + 1
         /\ r.ready.urgent = IF Critical(e) THEN Append(b.ready.urgent, id) ELSE b.ready.urgent
         /\ r.ready.low = IF Critical(e) THEN b.ready.low ELSE Append(b.ready.low, id)
         /\ r.stored = b.stored /\ r.retained = b.retained
         /\ r.queued = b.queued /\ r.index = b.index
<1> DEFINE r == Enter(b, id, e)
           u == IF Critical(e) THEN Append(b.ready.urgent, id) ELSE b.ready.urgent
           l == IF Critical(e) THEN b.ready.low ELSE Append(b.ready.low, id)
<1>1. u \in Seq(Ids) /\ l \in Seq(Ids) /\ Len(u) + Len(l) = Depth(b) + 1
  <2>1. /\ b.ready.urgent \in Seq(Ids) /\ b.ready.low \in Seq(Ids)
        /\ Depth(b) = Len(b.ready.urgent) + Len(b.ready.low)
    BY BoxParts
  <2>2. \A s \in Seq(Ids) : Append(s, id) \in Seq(Ids)
    BY RangeAppended
  <2>3. /\ Len(Append(b.ready.urgent, id)) + Len(b.ready.low) = Depth(b) + 1
        /\ Len(b.ready.urgent) + Len(Append(b.ready.low, id)) = Depth(b) + 1
    BY <2>1, LensAdd
  <2>4. \/ u = Append(b.ready.urgent, id) /\ l = b.ready.low
        \/ u = b.ready.urgent /\ l = Append(b.ready.low, id)
    OBVIOUS
  <2> HIDE DEF u, l
  <2> QED BY <2>1, <2>2, <2>3, <2>4
<1>2. /\ r.ready.urgent = u /\ r.ready.low = l
      /\ r.stored = b.stored /\ r.retained = b.retained
      /\ r.queued = b.queued /\ r.index = b.index
  BY BoxParts DEF Enter, Boxes
<1>3. r \in Boxes
  BY <1>1, BoxParts DEF Enter, Boxes
<1> HIDE DEF u, l
<1>4. Depth(r) = Depth(b) + 1
  BY <1>1, <1>2 DEF Depth
<1> QED BY <1>2, <1>3, <1>4 DEF u, l

\* An event has been added to the ready queue, in the lane of its kind.
Entered(r, b, id, e, C, O) ==
  /\ BoxTold(r, C, O) /\ Depth(r) = Depth(b) + 1 /\ (Fits(b) => Fits(r))
  /\ r.ready = Enter(b, id, e).ready
  /\ Range(r.ready.urgent) = Range(b.ready.urgent) \cup (IF id \in C THEN {id} ELSE {})
  /\ Range(r.ready.low) = Range(b.ready.low) \cup (IF id \in C THEN {} ELSE {id})

\* An event enters the ready queue, in the lane of its kind.
LEMMA EnterKeeps ==
  ASSUME NEW b, NEW C \in SUBSET Ids, NEW O \in SUBSET C, BoxTold(b, C, O),
         NEW id \in Ids, NEW e, Critical(e) <=> id \in C,
         id \in C => id \in O /\ id \notin Range(b.ready.urgent),
         NEW r \in Boxes, r.ready = Enter(b, id, e).ready,
         r.stored = b.stored, r.index = b.index,
         r.queued = b.queued \/ r.queued = b.queued \cup {id},
         Replaced(r.retained, b.retained, id, Nothing)
  PROVE  Entered(r, b, id, e, C, O)
<1>0. \A x \in Ids : r.retained[x] = IF x = id THEN Nothing ELSE b.retained[x]
  BY DEF Replaced
<1>1. b \in Boxes
  BY DEF BoxTold
<1>2. /\ r.ready.urgent = IF id \in C THEN Append(b.ready.urgent, id) ELSE b.ready.urgent
      /\ r.ready.low = IF id \in C THEN b.ready.low ELSE Append(b.ready.low, id)
      /\ Depth(r) = Depth(b) + 1
  <2>1. Depth(Enter(b, id, e)) = Depth(r)
    BY DEF Depth
  <2> QED BY <1>1, <2>1, EnterAdds
<1>3. /\ Range(r.ready.urgent) = Range(b.ready.urgent) \cup (IF id \in C THEN {id} ELSE {})
      /\ Range(r.ready.low) = Range(b.ready.low) \cup (IF id \in C THEN {} ELSE {id})
      /\ IsInjective(b.ready.urgent) => IsInjective(r.ready.urgent)
  <2>1. b.ready.urgent \in Seq(Ids) /\ b.ready.low \in Seq(Ids)
    BY <1>1, BoxParts
  <2>2. /\ Range(Append(b.ready.urgent, id)) = Range(b.ready.urgent) \cup {id}
        /\ Range(Append(b.ready.low, id)) = Range(b.ready.low) \cup {id}
        /\ IsInjective(b.ready.urgent) /\ id \notin Range(b.ready.urgent)
             => IsInjective(Append(b.ready.urgent, id))
    BY <2>1, RangeAppended
  <2>3. CASE id \in C
    <3>1. r.ready.urgent = Append(b.ready.urgent, id) /\ r.ready.low = b.ready.low
      BY <1>2, <2>3
    <3> QED BY <2>2, <2>3, <3>1
  <2>4. CASE id \notin C
    <3>1. r.ready.urgent = b.ready.urgent /\ r.ready.low = Append(b.ready.low, id)
      BY <1>2, <2>4
    <3> QED BY <2>2, <2>4, <3>1
  <2> QED BY <2>3, <2>4
<1>4. QueuedTold(r)
  BY <1>0, <1>1, <1>3, BoxParts DEF QueuedTold, BoxTold
<1>5. IndexTold(r) /\ KindsTold(r, C)
  BY <1>0 DEF IndexTold, KindsTold, BoxTold
<1>6. LanesTold(r, C, O)
  BY <1>3 DEF LanesTold, BoxTold
<1>7. OnePlace(r, C, O)
  BY <1>0, <1>3 DEF OnePlace, BoxTold
<1>8. Fits(b) => Fits(r)
  BY <1>0, FitsStill DEF RetainedIds
<1> QED BY <1>2, <1>3, <1>4, <1>5, <1>6, <1>7, <1>8 DEF BoxTold, Entered

\* B gives what comes before each of U: of two, one comes before the other with all before it.
InLine(U, B) ==
  /\ B \in [U -> SUBSET U]
  /\ \A x \in U : x \notin B[x]
  /\ \A x, y \in U : x # y => B[x] \cup {x} \subseteq B[y] \/ B[y] \cup {y} \subseteq B[x]

\* Of any set ordered by what comes before, at most n have fewer than n before them.
LEMMA FewHaveFewBefore ==
  ASSUME NEW U, IsFiniteSet(U), NEW B, InLine(U, B), NEW n \in Nat,
         NEW F, F = {x \in U : Cardinality(B[x]) < n}
  PROVE  Cardinality(F) <= n
<1> DEFINE N == 0 .. n - 1
           f == [x \in F |-> Cardinality(B[x])]
<1>1. \A x \in U : IsFiniteSet(B[x]) /\ Cardinality(B[x]) \in Nat
  BY FS_Subset, FS_CardinalityType DEF InLine
<1>2. \A x, y \in U : B[x] \cup {x} \subseteq B[y] => Cardinality(B[x]) < Cardinality(B[y])
  <2> SUFFICES ASSUME NEW x \in U, NEW y \in U, B[x] \cup {x} \subseteq B[y]
               PROVE  Cardinality(B[x]) < Cardinality(B[y])
    OBVIOUS
  <2>1. Cardinality(B[x] \cup {x}) = Cardinality(B[x]) + 1
    BY <1>1, FS_AddElement DEF InLine
  <2>2. Cardinality(B[x] \cup {x}) <= Cardinality(B[y])
    <3>1. B[x] \cup {x} \in SUBSET B[y] /\ IsFiniteSet(B[y])
      BY <1>1
    <3> QED BY <3>1, FS_Subset
  <2> QED BY <1>1, <2>1, <2>2
<1>3. f \in [F -> N] /\ \A x \in F : f[x] = Cardinality(B[x])
  BY <1>1
<1>4. \A x, y \in F : f[x] = f[y] => x = y
  <2> SUFFICES ASSUME NEW x \in F, NEW y \in F, x # y
               PROVE  Cardinality(B[x]) # Cardinality(B[y])
    BY <1>3
  <2>1. x \in U /\ y \in U
    OBVIOUS
  <2>2. \/ Cardinality(B[x]) < Cardinality(B[y])
        \/ Cardinality(B[y]) < Cardinality(B[x])
    BY <1>2, <2>1 DEF InLine
  <2> QED BY <1>1, <2>1, <2>2
<1> HIDE DEF f
<1>5. f \in Injection(F, N)
  BY <1>3, <1>4 DEF Injection, IsInjective
<1>6. IsFiniteSet(N) /\ Cardinality(N) = n
  BY FS_Interval
<1> HIDE DEF N
<1> QED BY <1>5, <1>6, FS_Injection

\* No more are promoted than there is room for.
LEMMA PromotableFits ==
  ASSUME NEW b \in Boxes, Room(b) \in Nat
  PROVE  /\ Promotable(b) \in SUBSET Unqueued(b)
         /\ Cardinality(Promotable(b)) <= Room(b)
<1> DEFINE U == Unqueued(b)
           urgent == {id \in U : Critical(b.retained[id])}
           B == [id \in U |-> IF id \in urgent THEN {x \in urgent : x < id}
                                               ELSE urgent \cup {x \in U : x < id}]
<1>1. U \in SUBSET Ids /\ IsFiniteSet(U) /\ U \subseteq Nat
  <2>1. U \in SUBSET Ids
    BY DEF Unqueued, RetainedIds
  <2> QED BY <2>1, IdsAre, FS_Subset
<1>2. Promotable(b) = {id \in U : Cardinality(B[id]) < Room(b)}
  BY DEF Promotable
<1> HIDE DEF U
<1>3. B \in [U -> SUBSET U]
  OBVIOUS
<1>4. \A x, y \in U : y \in B[x] <=> IF x \in urgent THEN y \in urgent /\ y < x
                                                     ELSE y \in urgent \/ y < x
  OBVIOUS
<1> HIDE DEF B, urgent
<1>5. \A x \in U : x \notin B[x]
  <2> SUFFICES ASSUME NEW x \in U, x \in B[x] PROVE FALSE
    OBVIOUS
  <2>1. x < x
    BY <1>4
  <2>2. x \in Nat
    BY <1>1
  <2> QED BY <2>1, <2>2
<1>6. \A x, y \in U : (\A z \in U : z \in B[x] \/ z = x => z \in B[y]) => B[x] \cup {x} \subseteq B[y]
  BY <1>3
<1>7. ASSUME NEW x \in U, NEW y \in U, x # y
      PROVE  B[x] \cup {x} \subseteq B[y] \/ B[y] \cup {y} \subseteq B[x]
  <2>0. \A z \in U : z \in Int
    BY <1>1
  <2>1. CASE x \in urgent /\ y \in urgent
    <3>1. CASE x < y
      <4>1. \A z \in U : z \in B[x] \/ z = x => z \in B[y]
        BY <1>4, <2>0, <2>1, <3>1
      <4> QED BY <1>6, <4>1
    <3>2. CASE y < x
      <4>1. \A z \in U : z \in B[y] \/ z = y => z \in B[x]
        BY <1>4, <2>0, <2>1, <3>2
      <4> QED BY <1>6, <4>1
    <3> QED BY <1>7, <2>0, <3>1, <3>2
  <2>2. CASE x \in urgent /\ y \notin urgent
    <3>1. \A z \in U : z \in B[x] \/ z = x => z \in B[y]
      BY <1>4, <2>2
    <3> QED BY <1>6, <3>1
  <2>3. CASE x \notin urgent /\ y \in urgent
    <3>1. \A z \in U : z \in B[y] \/ z = y => z \in B[x]
      BY <1>4, <2>3
    <3> QED BY <1>6, <3>1
  <2>4. CASE x \notin urgent /\ y \notin urgent
    <3>1. CASE x < y
      <4>1. \A z \in U : z \in B[x] \/ z = x => z \in B[y]
        BY <1>4, <2>0, <2>4, <3>1
      <4> QED BY <1>6, <4>1
    <3>2. CASE y < x
      <4>1. \A z \in U : z \in B[y] \/ z = y => z \in B[x]
        BY <1>4, <2>0, <2>4, <3>2
      <4> QED BY <1>6, <4>1
    <3> QED BY <1>7, <2>0, <3>1, <3>2
  <2> QED BY <2>1, <2>2, <2>3, <2>4
<1>8. \A x, y \in U : x # y => B[x] \cup {x} \subseteq B[y] \/ B[y] \cup {y} \subseteq B[x]
  BY <1>7
<1> DEFINE F == {id \in U : Cardinality(B[id]) < Room(b)}
<1>9. F = {id \in U : Cardinality(B[id]) < Room(b)} /\ F \in SUBSET U
  OBVIOUS
<1> HIDE DEF F
<1>10. Cardinality(F) <= Room(b)
  <2>1. InLine(U, B)
    BY <1>3, <1>5, <1>8 DEF InLine
  <2> QED BY <1>1, <1>9, <2>1, FewHaveFewBefore
<1> QED BY <1>2, <1>9, <1>10 DEF U

\* A lane after events have been appended in their order of age.
LEMMA LaneAfter ==
  ASSUME NEW u \in Seq(Ids), NEW S \in SUBSET Ids
  PROVE  /\ u \o Aged(S) \in Seq(Ids) /\ Range(u \o Aged(S)) = Range(u) \cup S
         /\ Len(u \o Aged(S)) = Len(u) + Cardinality(S) /\ Cardinality(S) \in Nat
         /\ IsInjective(u) /\ Range(u) \cap S = {} => IsInjective(u \o Aged(S))
<1>1. S \in SUBSET Nat /\ IsFiniteSet(S)
  BY IdsAre, FS_Subset
<1>2. /\ Aged(S) \in Seq(S) /\ Len(Aged(S)) = Cardinality(S) /\ Cardinality(S) \in Nat
      /\ Range(Aged(S)) = S /\ IsInjective(Aged(S))
  BY <1>1, AgedIs
<1>3. Aged(S) \in Seq(Ids)
  BY <1>2, SeqMonotonic
<1> DEFINE t == Aged(S)
<1> HIDE DEF t
<1>4. /\ u \o t \in Seq(Ids) /\ Len(u \o t) = Len(u) + Len(t)
      /\ Range(u \o t) = Range(u) \cup Range(t)
      /\ IsInjective(u) /\ IsInjective(t) /\ Range(u) \cap Range(t) = {} => IsInjective(u \o t)
  BY <1>3, Concatenated DEF t
<1> QED BY <1>2, <1>4 DEF t

\* promote_retained: the retained events there is room for are moved, the critical ones to
\* the urgent lane; nothing else changes place.
LEMMA PromoteKeeps ==
  ASSUME NEW b, NEW C \in SUBSET Ids, NEW O \in SUBSET C,
         BoxTold(b, C, O), Fits(b), Depth(b) <= MaxSize,
         NEW r, r = Promote(b)
  PROVE  /\ BoxTold(r, C, O) /\ Fits(r) /\ Depth(r) <= MaxSize
         /\ \E up \in SUBSET RetainedIds(b) : MovedUp(r, b, up, C)
<1>1. b \in Boxes /\ Room(b) \in Nat /\ Room(b) = MaxSize - Depth(b) /\ Depth(b) \in Nat
  <2>1. b \in Boxes
    BY DEF BoxTold
  <2>2. Room(b) = MaxSize - Depth(b) /\ Depth(b) \in Nat
    BY <2>1, BoxParts
  <2>3. MaxSize - Depth(b) \in Nat
    BY <2>2, SizesAssumption
  <2> QED BY <2>1, <2>2, <2>3
<1> DEFINE up == Promotable(b)
           urgent == {id \in up : Critical(b.retained[id])}
<1>2. up \in SUBSET RetainedIds(b) /\ up \in SUBSET Ids /\ Cardinality(up) <= Room(b)
  BY <1>1, PromotableFits DEF Unqueued, RetainedIds
<1>3. urgent = up \cap C
  BY <1>2 DEF BoxTold, KindsTold, RetainedIds
<1>4. /\ r.ready.urgent = b.ready.urgent \o Aged(urgent)
      /\ r.ready.low = b.ready.low \o Aged(up \ urgent)
      /\ r.stored = b.stored /\ r.index = b.index /\ r.queued = b.queued \cup up
      /\ r.retained = [id \in Ids |-> IF id \in up THEN Nothing ELSE b.retained[id]]
      /\ DOMAIN r = DOMAIN b
  BY <1>1, BoxParts DEF Promote, Boxes
<1> HIDE DEF up, urgent
<1>5. /\ IsFiniteSet(up) /\ urgent \in SUBSET up /\ urgent \in SUBSET Nat /\ IsFiniteSet(urgent)
      /\ up \ urgent \in SUBSET Nat /\ IsFiniteSet(up \ urgent) /\ up \in SUBSET Ids
  BY <1>2, <1>3, IdsAre, FS_Subset
<1>6. /\ Cardinality(urgent) \in Nat /\ Cardinality(up \ urgent) \in Nat
      /\ Cardinality(urgent) + Cardinality(up \ urgent) = Cardinality(up)
  <2>1. up \cap urgent = urgent
    BY <1>5
  <2>2. Cardinality(up \ urgent) = Cardinality(up) - Cardinality(urgent)
    BY <1>5, <2>1, FS_Difference
  <2>3. Cardinality(up) \in Nat /\ Cardinality(urgent) \in Nat /\ Cardinality(up \ urgent) \in Nat
    BY <1>5, FS_CardinalityType
  <2> QED BY <2>2, <2>3
<1>8. b.ready.urgent \in Seq(Ids) /\ b.ready.low \in Seq(Ids)
  BY <1>1, BoxParts
<1>9. /\ r.ready.urgent \in Seq(Ids) /\ r.ready.low \in Seq(Ids)
      /\ Range(r.ready.urgent) = Range(b.ready.urgent) \cup urgent
      /\ Range(r.ready.low) = Range(b.ready.low) \cup (up \ urgent)
      /\ Len(r.ready.urgent) = Len(b.ready.urgent) + Cardinality(urgent)
      /\ Len(r.ready.low) = Len(b.ready.low) + Cardinality(up \ urgent)
      /\ IsInjective(b.ready.urgent) /\ Range(b.ready.urgent) \cap urgent = {}
           => IsInjective(r.ready.urgent)
  <2>1. /\ b.ready.urgent \o Aged(urgent) \in Seq(Ids)
        /\ Range(b.ready.urgent \o Aged(urgent)) = Range(b.ready.urgent) \cup urgent
        /\ Len(b.ready.urgent \o Aged(urgent)) = Len(b.ready.urgent) + Cardinality(urgent)
        /\ IsInjective(b.ready.urgent) /\ Range(b.ready.urgent) \cap urgent = {}
             => IsInjective(b.ready.urgent \o Aged(urgent))
    BY <1>5, <1>8, LaneAfter
  <2>2. /\ b.ready.low \o Aged(up \ urgent) \in Seq(Ids)
        /\ Range(b.ready.low \o Aged(up \ urgent)) = Range(b.ready.low) \cup (up \ urgent)
        /\ Len(b.ready.low \o Aged(up \ urgent)) = Len(b.ready.low) + Cardinality(up \ urgent)
    BY <1>5, <1>8, LaneAfter
  <2> QED BY <1>4, <2>1, <2>2
<1>10. Depth(r) <= MaxSize
  <2>1. Depth(b) = Len(b.ready.urgent) + Len(b.ready.low)
    BY DEF Depth
  <2>2. Depth(r) = Len(r.ready.urgent) + Len(r.ready.low)
    BY DEF Depth
  <2>4. Depth(r) = Depth(b) + Cardinality(up)
    <3>1. Len(r.ready.urgent) + Len(r.ready.low)
            = Depth(b) + (Cardinality(urgent) + Cardinality(up \ urgent))
      <4>1. b.ready.urgent \in Seq(Ids) /\ b.ready.low \in Seq(Ids)
        BY <1>8
      <4>2. r.ready.urgent \in Seq(Ids) /\ r.ready.low \in Seq(Ids)
        BY <1>9
      <4>3. Cardinality(urgent) \in Nat /\ Cardinality(up \ urgent) \in Nat
        BY <1>6
      <4>4. /\ Len(r.ready.urgent) = Len(b.ready.urgent) + Cardinality(urgent)
            /\ Len(r.ready.low) = Len(b.ready.low) + Cardinality(up \ urgent)
        BY <1>9
      <4> DEFINE u == b.ready.urgent
                 l == b.ready.low
                 s == r.ready.urgent
                 t == r.ready.low
                 m == Cardinality(urgent)
                 n == Cardinality(up \ urgent)
      <4>5. /\ u \in Seq(Ids) /\ l \in Seq(Ids) /\ s \in Seq(Ids) /\ t \in Seq(Ids)
            /\ m \in Nat /\ n \in Nat /\ Len(s) = Len(u) + m /\ Len(t) = Len(l) + n
            /\ Depth(b) = Len(u) + Len(l)
        BY <2>1, <4>1, <4>2, <4>3, <4>4
      <4> HIDE DEF u, l, s, t, m, n
      <4>6. Len(s) + Len(t) = Depth(b) + (m + n)
        BY <4>5, LensGrow
      <4> QED BY <4>6 DEF s, t, m, n
    <3> QED BY <1>6, <2>2, <3>1
  <2> QED BY <1>1, <1>2, <1>6, <2>4, SizesAssumption
<1>11. \A id \in Ids : r.retained[id] = IF id \in up THEN Nothing ELSE b.retained[id]
  BY <1>4
<1>12. r \in Boxes
  <2>1. r.ready = [b.ready EXCEPT !.urgent = b.ready.urgent \o Aged(urgent),
                                  !.low = b.ready.low \o Aged(up \ urgent)]
    BY <1>1, BoxParts DEF Promote, Boxes, up, urgent
  <2>2. r.ready \in [urgent : Seq(Ids), low : Seq(Ids)]
    <3>1. b.ready \in [urgent : Seq(Ids), low : Seq(Ids)]
      BY <1>1, BoxParts
    <3>2. b.ready.urgent \o Aged(urgent) \in Seq(Ids) /\ b.ready.low \o Aged(up \ urgent) \in Seq(Ids)
      BY <1>4, <1>9
    <3> QED BY <2>1, <3>1, <3>2
  <2>3. /\ r.stored \in [Ids -> Version \cup {Nothing}]
        /\ r.retained \in [Ids -> Version \cup {Nothing}]
        /\ r.queued \in SUBSET Ids
        /\ r.index \in [MergeKeys -> Ids \cup {0}]
    <3>1. /\ b.stored \in [Ids -> Version \cup {Nothing}]
          /\ b.retained \in [Ids -> Version \cup {Nothing}]
          /\ b.queued \in SUBSET Ids
          /\ b.index \in [MergeKeys -> Ids \cup {0}]
      BY <1>1, BoxParts
    <3>2. [id \in Ids |-> IF id \in up THEN Nothing ELSE b.retained[id]]
            \in [Ids -> Version \cup {Nothing}]
      BY <3>1
    <3> QED BY <1>4, <1>5, <3>1, <3>2
  <2>4. r = [ready |-> r.ready, stored |-> r.stored, queued |-> r.queued,
             retained |-> r.retained, index |-> r.index]
    BY <1>1 DEF Promote, Boxes
  <2> QED BY <2>2, <2>3, <2>4 DEF Boxes
<1>13. QueuedTold(r)
  BY <1>1, <1>2, <1>4, <1>9, <1>11, BoxParts DEF QueuedTold, BoxTold
<1>14. IndexTold(r) /\ KindsTold(r, C)
  BY <1>4, <1>11 DEF IndexTold, KindsTold, BoxTold
<1>15. LanesTold(r, C, O)
  <2>1. urgent \subseteq O /\ Range(b.ready.urgent) \cap urgent = {}
    BY <1>2, <1>3 DEF BoxTold, OnePlace, RetainedIds
  <2> QED BY <1>3, <1>9, <2>1 DEF LanesTold, BoxTold
<1>16. OnePlace(r, C, O)
  BY <1>3, <1>9, <1>11 DEF OnePlace, BoxTold
<1>17. Fits(r)
  BY <1>11, FitsStill DEF RetainedIds
<1>18. up \ urgent = up \ C
  BY <1>3
<1>19. MovedUp(r, b, up, C)
  BY <1>3, <1>4, <1>9, <1>18 DEF MovedUp
<1> QED BY <1>2, <1>10, <1>12, <1>13, <1>14, <1>15, <1>16, <1>17, <1>19 DEF BoxTold

\* An event is no longer stored, known as queued or indexed.
Forgotten(d, b, id) ==
  /\ d \in Boxes /\ d.ready = b.ready /\ d.queued = b.queued \ {id}
  /\ d.stored = [b.stored EXCEPT ![id] = Nothing]
  /\ d.retained = [b.retained EXCEPT ![id] = Nothing] \/ d.retained = b.retained
  /\ \A k \in MergeKeys : d.index[k] = 0 \/ (d.index[k] = b.index[k] /\ b.index[k] # id)

\* An event nobody owes anything any more can be forgotten.
LEMMA ForgottenKeeps ==
  ASSUME NEW b, NEW C \in SUBSET Ids, NEW O \in SUBSET C, BoxTold(b, C, O),
         NEW id \in Ids, NEW P, P = O \ {id},
         NEW d, Forgotten(d, b, id),
         id \in C => id \notin Range(b.ready.urgent) /\ d.retained[id] = Nothing
  PROVE  BoxTold(d, C, P) /\ (Fits(b) => Fits(d))
<1>1. b \in Boxes /\ d \in Boxes /\ d.ready = b.ready /\ d.queued = b.queued \ {id}
  BY DEF BoxTold, Forgotten
<1>2. /\ \A x \in Ids : d.stored[x] = IF x = id THEN Nothing ELSE b.stored[x]
      /\ \A x \in Ids : d.retained[x] = b.retained[x] \/ (x = id /\ d.retained[x] = Nothing)
  <2>1. /\ b.stored \in [Ids -> Version \cup {Nothing}]
        /\ b.retained \in [Ids -> Version \cup {Nothing}]
    BY <1>1, BoxParts
  <2> QED BY <2>1 DEF Forgotten
<1>3. QueuedTold(d)
  BY <1>1, <1>2, BoxParts DEF QueuedTold, BoxTold
<1>4. IndexTold(d)
  <2> SUFFICES ASSUME NEW k \in MergeKeys, d.index[k] # 0
               PROVE  d.stored[d.index[k]] # Nothing /\ KeyOf[d.stored[d.index[k]].what] = k
    BY DEF IndexTold
  <2>1. d.index[k] = b.index[k] /\ b.index[k] # id
    BY DEF Forgotten
  <2>2. b.index[k] \in Ids
    <3>1. b.index \in [MergeKeys -> Ids \cup {0}]
      BY <1>1, BoxParts
    <3> QED BY <2>1, <3>1
  <2> QED BY <1>2, <2>1, <2>2 DEF BoxTold, IndexTold
<1>5. KindsTold(d, C)
  BY <1>2 DEF KindsTold, BoxTold
<1>6. LanesTold(d, C, P)
  <2>1. id \notin Range(b.ready.urgent)
    BY DEF BoxTold, LanesTold
  <2> QED BY <1>1, <2>1 DEF LanesTold, BoxTold
<1>7. OnePlace(d, C, P)
  BY <1>1, <1>2 DEF OnePlace, BoxTold
<1>8. Fits(b) => Fits(d)
  BY <1>2, FitsStill DEF RetainedIds
<1> QED BY <1>1, <1>3, <1>4, <1>5, <1>6, <1>7, <1>8 DEF BoxTold

\* ack: the event is forgotten, and the place it leaves is filled.
LEMMA AckKeeps ==
  ASSUME NEW b, NEW C \in SUBSET Ids, NEW O \in SUBSET C,
         BoxTold(b, C, O), Fits(b), Depth(b) <= MaxSize,
         NEW id \in Ids, NEW P, P = O \ {id},
         id \in C => id \notin Range(b.ready.urgent),
         NEW r, r = Ack(b, id)
  PROVE  /\ BoxTold(r, C, P) /\ Fits(r) /\ Depth(r) <= MaxSize
         /\ \E d \in Boxes : /\ Forgotten(d, b, id) /\ d.retained[id] = Nothing
                             /\ \E up \in SUBSET RetainedIds(d) : MovedUp(r, d, up, C)
<1> DEFINE d == [b EXCEPT !.stored[id] = Nothing, !.retained[id] = Nothing,
                          !.queued = @ \ {id},
                          !.index = IF b.stored[id] # Nothing THEN Unindexed(b, {id}) ELSE @]
<1>1. b \in Boxes
  BY DEF BoxTold
<1>2. /\ b.stored \in [Ids -> Version \cup {Nothing}]
      /\ b.retained \in [Ids -> Version \cup {Nothing}]
      /\ b.queued \in SUBSET Ids
      /\ b.index \in [MergeKeys -> Ids \cup {0}]
  BY <1>1, BoxParts
<1>3. Unindexed(b, {id}) \in [MergeKeys -> Ids \cup {0}]
  BY <1>2 DEF Unindexed
<1>4. /\ d.ready = b.ready /\ d.queued = b.queued \ {id}
      /\ d.stored = [b.stored EXCEPT ![id] = Nothing]
      /\ d.retained = [b.retained EXCEPT ![id] = Nothing]
      /\ d.index = IF b.stored[id] # Nothing THEN Unindexed(b, {id}) ELSE b.index
      /\ d \in Boxes
  BY <1>1, <1>2, <1>3 DEF Boxes
<1>5. r = Promote(d)
  BY DEF Ack
<1> HIDE DEF d
<1>6. \A k \in MergeKeys : d.index[k] = 0 \/ (d.index[k] = b.index[k] /\ b.index[k] # id)
  <2>1. CASE b.stored[id] # Nothing
    BY <1>4, <2>1 DEF Unindexed
  <2>2. CASE b.stored[id] = Nothing
    BY <1>4, <2>2 DEF BoxTold, IndexTold
  <2> QED BY <2>1, <2>2
<1>7. Forgotten(d, b, id) /\ d.retained[id] = Nothing
  BY <1>2, <1>4, <1>6 DEF Forgotten
<1>8. BoxTold(d, C, P) /\ Fits(d)
  BY <1>7, ForgottenKeeps
<1>9. Depth(d) <= MaxSize
  BY <1>4 DEF Depth
<1>10. P \in SUBSET C
  OBVIOUS
<1>11. /\ BoxTold(r, C, P) /\ Fits(r) /\ Depth(r) <= MaxSize
       /\ \E up \in SUBSET RetainedIds(d) : MovedUp(r, d, up, C)
  BY <1>5, <1>8, <1>9, <1>10, PromoteKeeps
<1> QED BY <1>4, <1>7, <1>11

\* The first of the ready queue has been taken out, the rest is where it was.
Popped(r, b, id, C, O) ==
  /\ BoxTold(r, C, O) /\ (Fits(b) => Fits(r))
  /\ Depth(r) = Depth(b) - 1 /\ id \in Ids
  /\ r.stored = b.stored /\ r.retained = b.retained /\ r.queued = b.queued \ {id}
  /\ Range(r.ready.urgent) \subseteq Range(b.ready.urgent)
  /\ Range(r.ready.low) \subseteq Range(b.ready.low)
  /\ \A x \in Ids : x # id /\ x \in Range(b.ready.urgent) \cup Range(b.ready.low)
                      => x \in Range(r.ready.urgent) \cup Range(r.ready.low)
  /\ id \in C => id \in O /\ id \in Range(b.ready.urgent) /\ id \notin Range(r.ready.urgent)

\* The first of the ready queue is taken: one of the urgent lane, if there is any.
LEMMA PopKeeps ==
  ASSUME NEW b, NEW C \in SUBSET Ids, NEW O \in SUBSET C,
         BoxTold(b, C, O), Depth(b) > 0,
         NEW r, r = Pop(b), NEW id, id = First(b)
  PROVE  Popped(r, b, id, C, O)
<1>1. /\ b \in Boxes /\ b.ready.urgent \in Seq(Ids) /\ b.ready.low \in Seq(Ids)
      /\ b.ready \in [urgent : Seq(Ids), low : Seq(Ids)] /\ b.queued \in SUBSET Ids
      /\ Depth(b) = Len(b.ready.urgent) + Len(b.ready.low)
  BY BoxParts DEF BoxTold
<1>2. /\ IndexTold(b) /\ KindsTold(b, C) /\ OnePlace(b, C, O)
      /\ Range(b.ready.urgent) \subseteq O /\ Range(b.ready.low) \cap C = {}
      /\ IsInjective(b.ready.urgent)
      /\ \A x \in b.queued : /\ x \in Range(b.ready.urgent) \cup Range(b.ready.low)
                             /\ b.retained[x] = Nothing
  BY DEF BoxTold, LanesTold, QueuedTold
<1>3. /\ r \in Boxes /\ r.stored = b.stored /\ r.retained = b.retained /\ r.index = b.index
      /\ r.queued = b.queued \ {id} /\ id \in Ids /\ Depth(r) = Depth(b) - 1
      /\ Range(r.ready.urgent) \subseteq Range(b.ready.urgent)
      /\ Range(r.ready.low) \subseteq Range(b.ready.low)
      /\ \A x \in Ids : x # id /\ x \in Range(b.ready.urgent) \cup Range(b.ready.low)
                          => x \in Range(r.ready.urgent) \cup Range(r.ready.low)
      /\ id \in C => id \in Range(b.ready.urgent) /\ id \notin Range(r.ready.urgent)
      /\ IsInjective(r.ready.urgent)
  <2>1. CASE b.ready.urgent # <<>>
    <3> DEFINE t == Tail(b.ready.urgent)
    <3>1. /\ r.ready.urgent = t /\ r.ready.low = b.ready.low /\ r.queued = b.queued \ {id}
          /\ r.stored = b.stored /\ r.retained = b.retained /\ r.index = b.index
          /\ r = [b EXCEPT !.ready.urgent = t, !.queued = b.queued \ {id}]
          /\ id = Head(b.ready.urgent)
      BY <1>1, <2>1 DEF Pop, First, Boxes
    <3>2. /\ t \in Seq(Ids) /\ id \in Ids
          /\ Len(t) = Len(b.ready.urgent) - 1 /\ id \in Range(b.ready.urgent)
          /\ Range(b.ready.urgent) = Range(t) \cup {id}
          /\ IsInjective(b.ready.urgent) => IsInjective(t) /\ id \notin Range(t)
      BY <1>1, <2>1, <3>1, RangeOfTail
    <3> HIDE DEF t
    <3>3. r \in Boxes
      BY <1>1, <3>1, <3>2 DEF Boxes
    <3>4. Depth(r) = Depth(b) - 1
      <4>1. Depth(r) = Len(t) + Len(b.ready.low)
        BY <3>1 DEF Depth
      <4> QED BY <1>1, <3>2, <4>1, LensShrink
    <3> QED BY <1>2, <3>1, <3>2, <3>3, <3>4
  <2>2. CASE b.ready.urgent = <<>>
    <3> DEFINE t == Tail(b.ready.low)
    <3>0. b.ready.low # <<>>
      <4>1. Len(b.ready.urgent) = 0
        BY <2>2
      <4>2. b.ready.low = <<>> => Len(b.ready.low) = 0
        OBVIOUS
      <4> QED BY <1>1, <4>1, <4>2
    <3>1. /\ r.ready.low = t /\ r.ready.urgent = b.ready.urgent /\ r.queued = b.queued \ {id}
          /\ r.stored = b.stored /\ r.retained = b.retained /\ r.index = b.index
          /\ r = [b EXCEPT !.ready.low = t, !.queued = b.queued \ {id}]
          /\ id = Head(b.ready.low)
      BY <1>1, <2>2 DEF Pop, First, Boxes
    <3>2. /\ t \in Seq(Ids) /\ id \in Ids
          /\ Len(t) = Len(b.ready.low) - 1 /\ id \in Range(b.ready.low)
          /\ Range(b.ready.low) = Range(t) \cup {id}
      BY <1>1, <3>0, <3>1, RangeOfTail
    <3> HIDE DEF t
    <3>3. r \in Boxes
      BY <1>1, <3>1, <3>2 DEF Boxes
    <3>4. Depth(r) = Depth(b) - 1
      <4>1. Depth(r) = Len(b.ready.urgent) + Len(t)
        BY <3>1 DEF Depth
      <4> QED BY <1>1, <3>2, <4>1, LensShrink
    <3> QED BY <1>2, <3>1, <3>2, <3>3, <3>4
  <2> QED BY <2>1, <2>2
<1>4. QueuedTold(r)
  BY <1>1, <1>2, <1>3 DEF QueuedTold
<1>5. IndexTold(r) /\ KindsTold(r, C)
  BY <1>2, <1>3 DEF IndexTold, KindsTold
<1>6. LanesTold(r, C, O) /\ OnePlace(r, C, O)
  BY <1>2, <1>3 DEF LanesTold, OnePlace
<1>7. Fits(b) => Fits(r)
  BY <1>3, FitsStill DEF RetainedIds
<1>8. id \in C => id \in O
  BY <1>2, <1>3
<1> QED BY <1>3, <1>4, <1>5, <1>6, <1>7, <1>8 DEF BoxTold, Popped

----------------------------------------------------------------------------
(* What holds of the worker's hands.                                       *)

\* The worker will find the event: it is ready or retained.
PendingIn(b, id) ==
  id \in Range(b.ready.urgent) \cup Range(b.ready.low) \/ b.retained[id] # Nothing

\* An open critical event is stored, and somewhere on its way to the worker or with it.
Kept(b, hand, O) ==
  \A id \in O : /\ b.stored[id] # Nothing
                /\ PendingIn(b, id) \/ \E i \in DOMAIN hand : hand[i].id = id

\* What the worker read of an event agrees with what the outbox has of it, up to merges; a
\* critical one is open, and the ready queue has it no more.
EntryTold(b, e, C, O, n) ==
  /\ e.id <= n
  /\ Critical(e) <=> e.id \in C
  /\ e.id \in C => e.id \in O /\ e.id \notin Range(b.ready.urgent)
  /\ b.stored[e.id] # Nothing => /\ b.stored[e.id].tries = e.tries
                                 /\ KeyOf[b.stored[e.id].what] = KeyOf[e.what]
  /\ b.stored[e.id] = Nothing => b.retained[e.id] = Nothing

\* So it is with everything in hand.
HandTold(b, hand, C, O, n) == \A i \in DOMAIN hand : EntryTold(b, hand[i], C, O, n)

\* Of the critical events in hand only the one being retried may be retained.
RetainedTold(b, hand, at, C) ==
  /\ \A i \in DOMAIN hand :
       hand[i].id \in C => b.retained[hand[i].id] = Nothing \/ (at = "retrying" /\ i = 1)
  /\ at = "retrying" => hand[1].id \notin b.queued

\* From here on a batch is sifted and put in order.
Final(at) == at \in {"write", "settle", "retrying"}

\* A critical event is in hand once, and no event is twice in a batch being written.
HandOnce(hand, at, C) ==
  \A i, j \in DOMAIN hand :
    i # j /\ hand[i].id = hand[j].id => hand[i].id \notin C /\ ~ Final(at)

\* A batch is settled with the critical events first.
CriticalFirst(hand, at, C) ==
  Final(at) => \A i, j \in DOMAIN hand : i < j /\ hand[j].id \in C => hand[i].id \in C

\* How full the hands are where the worker stands.
PcTold(hand, at) ==
  /\ at = "off" => hand = <<>>
  /\ at \in {"get", "take", "timeout"} => Len(hand) < BatchSize
  /\ at \in {"settle", "retrying"} => hand # <<>>

\* All of these: what every step of the worker and every put keep of the hands.
HandSound(b, hand, at, C, O, n) ==
  /\ HandTold(b, hand, C, O, n) /\ RetainedTold(b, hand, at, C)
  /\ HandOnce(hand, at, C) /\ CriticalFirst(hand, at, C)
  /\ PcTold(hand, at) /\ Kept(b, hand, O)

\* Nothing is known of an id not given yet.
FreshTold(b, C, n) ==
  \A id \in Ids : id > n =>
    /\ id \notin C /\ b.stored[id] = Nothing /\ b.retained[id] = Nothing
    /\ id \notin b.queued \cup Range(b.ready.urgent) \cup Range(b.ready.low)

\* What becomes of the events other than the one an operation is about: of the critical
\* ones, at most that retained ones are moved to the ready queue.
Elsewhere(c, b, id, C) ==
  \A x \in Ids : x # id =>
    /\ c.stored[x] = b.stored[x] \/ (x \notin C /\ c.stored[x] = Nothing /\ c.retained[x] = Nothing)
    /\ c.retained[x] = b.retained[x] \/ c.retained[x] = Nothing
    /\ x \in Range(c.ready.urgent) => x \in Range(b.ready.urgent) \/ b.retained[x] # Nothing
    /\ x \in c.queued \cup Range(c.ready.low) =>
         x \in b.queued \cup Range(b.ready.low) \/ b.retained[x] # Nothing
    /\ x \in C /\ PendingIn(b, x) => PendingIn(c, x)

\* What is known of an entry stays known while the outbox changes elsewhere.
LEMMA EntryStays ==
  ASSUME NEW b, NEW c, NEW id, NEW C, NEW D, Elsewhere(c, b, id, C),
         NEW O, NEW P, NEW n \in Int, NEW m \in Int, n <= m, NEW e \in Entry, e.id # id,
         e.id \in C <=> e.id \in D, e.id \in O <=> e.id \in P,
         EntryTold(b, e, C, O, n),
         e.id \in C => b.retained[e.id] = Nothing \/ e.id \notin Range(c.ready.urgent)
  PROVE  EntryTold(c, e, D, P, m)
<1>1. e.id \in Ids /\ e.id \in Int
  BY IdsAre DEF Entry
<1>2. /\ c.stored[e.id] = b.stored[e.id]
         \/ (e.id \notin C /\ c.stored[e.id] = Nothing /\ c.retained[e.id] = Nothing)
      /\ c.retained[e.id] = b.retained[e.id] \/ c.retained[e.id] = Nothing
      /\ e.id \in Range(c.ready.urgent) => e.id \in Range(b.ready.urgent) \/ b.retained[e.id] # Nothing
  BY <1>1 DEF Elsewhere
<1>3. e.id <= m
  BY <1>1 DEF EntryTold
<1> QED BY <1>2, <1>3 DEF EntryTold

\* The worker stands at another point with the same batch.
LEMMA PcMoves ==
  ASSUME NEW b, NEW hand, NEW C, NEW O, NEW n, NEW at, HandSound(b, hand, at, C, O, n),
         at # "retrying", NEW to, to # "retrying", Final(to) => Final(at), PcTold(hand, to)
  PROVE  HandSound(b, hand, to, C, O, n)
<1>1. RetainedTold(b, hand, to, C)
  BY DEF HandSound, RetainedTold
<1>2. HandOnce(hand, to, C) /\ CriticalFirst(hand, to, C)
  BY DEF HandSound, HandOnce, CriticalFirst
<1> QED BY <1>1, <1>2 DEF HandSound

\* The outbox changes, the hands do not.
SameBut(id, C, D) == \A x \in Ids : x # id => (x \in C <=> x \in D)

\* What is left to show of the entries the change is about.
ToldOf(id, c, hand, X, D, P, m) ==
  \A i \in DOMAIN hand : hand[i].id = id => id \notin X /\ EntryTold(c, hand[i], D, P, m)

\* The hands stay sound under a change about one event, if they are sound of that event.
LEMMA SameHand ==
  ASSUME NEW b, NEW hand \in Seq(Entry), NEW at, NEW C, NEW O, NEW n \in Int,
         HandSound(b, hand, at, C, O, n),
         NEW c, NEW id, NEW D, NEW P, NEW m \in Int, n <= m, Elsewhere(c, b, id, C),
         SameBut(id, C, D) /\ SameBut(id, O, P),
         P \subseteq Ids,
         at = "retrying" => /\ c.queued = b.queued
                            /\ Range(c.ready.urgent) \subseteq Range(b.ready.urgent) \cup {id},
         ToldOf(id, c, hand, C \cup D, D, P, m),
         id \in P => c.stored[id] # Nothing /\ PendingIn(c, id),
         O \subseteq C
  PROVE  HandSound(c, hand, at, D, P, m)
<1>0. /\ \A x \in Ids : x # id => (x \in C <=> x \in D) /\ (x \in O <=> x \in P)
      /\ \A i \in DOMAIN hand : hand[i].id = id => id \notin C \cup D /\ EntryTold(c, hand[i], D, P, m)
  BY DEF SameBut, ToldOf
<1>1. /\ \A i \in DOMAIN hand : EntryTold(b, hand[i], C, O, n)
      /\ \A i \in DOMAIN hand :
           hand[i].id \in C => b.retained[hand[i].id] = Nothing \/ (at = "retrying" /\ i = 1)
      /\ at = "retrying" => hand[1].id \notin b.queued
      /\ PcTold(hand, at) /\ Kept(b, hand, O)
  BY DEF HandSound, HandTold, RetainedTold
<1>2. \A i \in DOMAIN hand : hand[i] \in Entry /\ hand[i].id \in Ids
  <2>1. \A i \in DOMAIN hand : hand[i] \in Entry
    BY LenProperties, ElementOfSeq
  <2> QED BY <2>1 DEF Entry
<1>3. \A i \in DOMAIN hand : hand[i].id \in C <=> hand[i].id \in D
  BY <1>0, <1>2
<1>4. HandTold(c, hand, D, P, m)
  <2> SUFFICES ASSUME NEW i \in DOMAIN hand
               PROVE  EntryTold(c, hand[i], D, P, m)
    BY DEF HandTold
  <2>1. CASE hand[i].id = id
    BY <1>0, <2>1
  <2>2. CASE hand[i].id # id
    <3>1. hand[i].id \in C => b.retained[hand[i].id] = Nothing \/ hand[i].id \notin Range(c.ready.urgent)
      BY <1>0, <1>1, <2>2 DEF EntryTold
    <3>2. (hand[i].id \in O <=> hand[i].id \in P) /\ hand[i] \in Entry
      BY <1>0, <1>2, <2>2
    <3> QED BY <1>0, <1>1, <1>3, <2>2, <3>1, <3>2, EntryStays
  <2> QED BY <1>0, <2>1, <2>2
<1>5. RetainedTold(c, hand, at, D)
  <2>1. ASSUME NEW i \in DOMAIN hand, hand[i].id \in D
        PROVE  c.retained[hand[i].id] = Nothing \/ (at = "retrying" /\ i = 1)
    <3>1. hand[i].id # id /\ hand[i].id \in C /\ hand[i].id \in Ids
      BY <1>0, <1>2, <1>3, <2>1
    <3>2. c.retained[hand[i].id] = b.retained[hand[i].id] \/ c.retained[hand[i].id] = Nothing
      BY <1>0, <3>1 DEF Elsewhere
    <3> QED BY <1>0, <1>1, <3>1, <3>2
  <2> QED BY <1>0, <1>1, <2>1 DEF RetainedTold
<1>6. HandOnce(hand, at, D) /\ CriticalFirst(hand, at, D)
  BY <1>0, <1>3 DEF HandSound, HandOnce, CriticalFirst
<1>7. Kept(c, hand, P)
  <2> SUFFICES ASSUME NEW x \in P
               PROVE  /\ c.stored[x] # Nothing
                      /\ PendingIn(c, x) \/ \E i \in DOMAIN hand : hand[i].id = x
    BY DEF Kept
  <2>1. CASE x = id
    BY <1>0, <2>1
  <2>2. CASE x # id
    <3>1. x \in O /\ x \in C /\ x \in Ids
      BY <1>0, <2>2
    <3> QED BY <1>0, <1>1, <2>2, <3>1 DEF Kept, Elsewhere
  <2> QED BY <1>0, <2>1, <2>2
<1> QED BY <1>0, <1>1, <1>4, <1>5, <1>6, <1>7 DEF HandSound

\* One event of a batch is settled.
LEMMA OneSettled ==
  ASSUME NEW b, NEW hand \in Seq(Entry), NEW at \in {"settle", "retrying"}, NEW C,
         NEW O, NEW n \in Int, O \subseteq C, O \subseteq Ids,
         HandSound(b, hand, at, C, O, n), hand # <<>>,
         NEW c, Elsewhere(c, b, hand[1].id, C),
         NEW P, P \subseteq O, O \subseteq P \cup {hand[1].id},
         hand[1].id \in P => c.stored[hand[1].id] # Nothing /\ PendingIn(c, hand[1].id)
  PROVE  HandSound(c, Tail(hand), IF Len(hand) = 1 THEN "get" ELSE "settle", C, P, n)
<1> DEFINE id == hand[1].id
           rest == Tail(hand)
           to == IF Len(hand) = 1 THEN "get" ELSE "settle"
<1>0. /\ Elsewhere(c, b, id, C) /\ P \subseteq O /\ O \subseteq P \cup {id} /\ id = hand[1].id
      /\ id \in P => c.stored[id] # Nothing /\ PendingIn(c, id)
      /\ rest = Tail(hand) /\ to = IF Len(hand) = 1 THEN "get" ELSE "settle"
  OBVIOUS
<1> HIDE DEF id, rest, to
<1>1. /\ rest \in Seq(Entry) /\ Len(hand) \in Nat \ {0} /\ Len(rest) = Len(hand) - 1
      /\ DOMAIN hand = 1 .. Len(hand) /\ DOMAIN rest = 1 .. Len(hand) - 1
      /\ \A i \in 1 .. Len(hand) - 1 : rest[i] = hand[i + 1]
  BY <1>0, RangeOfTail
<1>2. \A i \in DOMAIN rest : i + 1 \in DOMAIN hand /\ i + 1 # 1 /\ 1 \in DOMAIN hand /\ rest[i] = hand[i + 1]
  BY <1>1
<1>3. \A i \in DOMAIN hand : hand[i] \in Entry /\ hand[i].id \in Ids
  <2>1. \A i \in DOMAIN hand : hand[i] \in Entry
    BY LenProperties, ElementOfSeq
  <2> QED BY <2>1 DEF Entry
<1>4. \A i \in DOMAIN rest : rest[i] \in Entry /\ rest[i].id \in Ids /\ rest[i].id # id
  BY <1>0, <1>2, <1>3 DEF HandSound, HandOnce, Final
<1>5. \A i \in DOMAIN rest : rest[i].id \in C => b.retained[rest[i].id] = Nothing
  BY <1>2 DEF HandSound, RetainedTold
<1>6. HandTold(c, rest, C, P, n)
  <2> SUFFICES ASSUME NEW i \in DOMAIN rest
               PROVE  EntryTold(c, rest[i], C, P, n)
    BY DEF HandTold
  <2>1. EntryTold(b, rest[i], C, O, n)
    BY <1>2 DEF HandSound, HandTold
  <2>2. /\ rest[i] \in Entry /\ rest[i].id # id /\ (rest[i].id \in O <=> rest[i].id \in P)
        /\ rest[i].id \in C => b.retained[rest[i].id] = Nothing
        /\ n <= n
    BY <1>0, <1>4, <1>5
  <2> QED BY <1>0, <2>1, <2>2, EntryStays
<1>7. RetainedTold(c, rest, to, C)
  <2>1. \A i \in DOMAIN rest : rest[i].id \in C => c.retained[rest[i].id] = Nothing
    BY <1>0, <1>4, <1>5 DEF Elsewhere
  <2> QED BY <1>0, <2>1 DEF RetainedTold
<1>8. \A i, j \in DOMAIN rest : i # j => rest[i].id # rest[j].id
  <2> SUFFICES ASSUME NEW i \in DOMAIN rest, NEW j \in DOMAIN rest, i # j
               PROVE  rest[i].id # rest[j].id
    OBVIOUS
  <2>1. i + 1 # j + 1
    BY <1>1
  <2> QED BY <1>0, <1>2, <2>1 DEF HandSound, HandOnce, Final
<1>9. HandOnce(rest, to, C)
  BY <1>8 DEF HandOnce
<1>10. CriticalFirst(rest, to, C)
  <2> SUFFICES ASSUME NEW i \in DOMAIN rest, NEW j \in DOMAIN rest, i < j, rest[j].id \in C
               PROVE  rest[i].id \in C
    BY DEF CriticalFirst
  <2>1. i + 1 < j + 1
    BY <1>1
  <2> QED BY <1>2, <2>1 DEF HandSound, CriticalFirst, Final
<1>11. PcTold(rest, to)
  <2>1. CASE Len(hand) = 1
    <3>1. to = "get" /\ Len(rest) = 0 /\ 0 < BatchSize
      BY <1>0, <1>1, <2>1, SizesAssumption
    <3> QED BY <3>1 DEF PcTold
  <2>2. CASE Len(hand) # 1
    <3>1. to = "settle" /\ Len(rest) # 0
      BY <1>0, <1>1, <2>2
    <3>2. rest # <<>>
      BY <3>1, EmptySeq
    <3> QED BY <3>1, <3>2 DEF PcTold
  <2> QED BY <2>1, <2>2
<1>12. Kept(c, rest, P)
  <2> SUFFICES ASSUME NEW x \in P
               PROVE  /\ c.stored[x] # Nothing
                      /\ PendingIn(c, x) \/ \E i \in DOMAIN rest : rest[i].id = x
    BY DEF Kept
  <2>1. CASE x = id
    BY <1>0, <2>1
  <2>2. CASE x # id
    <3>1. x \in O /\ x \in C /\ x \in Ids
      OBVIOUS
    <3>2. b.stored[x] # Nothing /\ (PendingIn(b, x) \/ \E i \in DOMAIN hand : hand[i].id = x)
      BY <3>1 DEF HandSound, Kept
    <3>3. c.stored[x] # Nothing /\ (PendingIn(b, x) => PendingIn(c, x))
      BY <1>0, <2>2, <3>1, <3>2 DEF Elsewhere
    <3>4. ASSUME NEW i \in DOMAIN hand, hand[i].id = x
          PROVE  \E j \in DOMAIN rest : rest[j].id = x
      <4>1. i - 1 \in DOMAIN rest /\ rest[i - 1] = hand[i]
        BY <1>0, <1>1, <2>2, <3>4
      <4> QED BY <3>4, <4>1
    <3> QED BY <3>2, <3>3, <3>4
  <2> QED BY <2>1, <2>2
<1> QED BY <1>6, <1>7, <1>9, <1>10, <1>11, <1>12 DEF HandSound, rest, to

\* Ids not given yet stay unknown.
LEMMA FreshStays ==
  ASSUME NEW b, NEW C, NEW n \in Int, FreshTold(b, C, n),
         NEW c, NEW id, Elsewhere(c, b, id, C), NEW m \in Int, n <= m, id \in Ids => id <= m,
         NEW D, D \subseteq C \cup {id}, id \in Int
  PROVE  FreshTold(c, D, m)
<1> SUFFICES ASSUME NEW x \in Ids, x > m
             PROVE  /\ x \notin D /\ c.stored[x] = Nothing /\ c.retained[x] = Nothing
                    /\ x \notin c.queued \cup Range(c.ready.urgent) \cup Range(c.ready.low)
  BY DEF FreshTold
<1>1. x > n /\ x # id
  <2>1. x \in Int
    BY IdsAre
  <2>2. x # id
    BY <2>1
  <2> QED BY <2>1, <2>2
<1>2. /\ x \notin C /\ b.stored[x] = Nothing /\ b.retained[x] = Nothing
      /\ x \notin b.queued \cup Range(b.ready.urgent) \cup Range(b.ready.low)
  BY <1>1 DEF FreshTold
<1> QED BY <1>1, <1>2 DEF Elsewhere

\* Two operations about the same event are as one.
LEMMA ElsewhereTwice ==
  ASSUME NEW b, NEW c, NEW d, NEW id, NEW C, Elsewhere(c, b, id, C), Elsewhere(d, c, id, C)
  PROVE  Elsewhere(d, b, id, C)
<1> SUFFICES ASSUME NEW x \in Ids, x # id
             PROVE  /\ d.stored[x] = b.stored[x]
                         \/ (x \notin C /\ d.stored[x] = Nothing /\ d.retained[x] = Nothing)
                    /\ d.retained[x] = b.retained[x] \/ d.retained[x] = Nothing
                    /\ x \in Range(d.ready.urgent) =>
                         x \in Range(b.ready.urgent) \/ b.retained[x] # Nothing
                    /\ x \in d.queued \cup Range(d.ready.low) =>
                         x \in b.queued \cup Range(b.ready.low) \/ b.retained[x] # Nothing
                    /\ x \in C /\ PendingIn(b, x) => PendingIn(d, x)
  BY DEF Elsewhere
<1>1. /\ c.stored[x] = b.stored[x]
           \/ (x \notin C /\ c.stored[x] = Nothing /\ c.retained[x] = Nothing)
      /\ c.retained[x] = b.retained[x] \/ c.retained[x] = Nothing
      /\ x \in Range(c.ready.urgent) => x \in Range(b.ready.urgent) \/ b.retained[x] # Nothing
      /\ x \in c.queued \cup Range(c.ready.low) =>
           x \in b.queued \cup Range(b.ready.low) \/ b.retained[x] # Nothing
      /\ x \in C /\ PendingIn(b, x) => PendingIn(c, x)
  BY DEF Elsewhere
<1>2. /\ d.stored[x] = c.stored[x]
           \/ (x \notin C /\ d.stored[x] = Nothing /\ d.retained[x] = Nothing)
      /\ d.retained[x] = c.retained[x] \/ d.retained[x] = Nothing
      /\ x \in Range(d.ready.urgent) => x \in Range(c.ready.urgent) \/ c.retained[x] # Nothing
      /\ x \in d.queued \cup Range(d.ready.low) =>
           x \in c.queued \cup Range(c.ready.low) \/ c.retained[x] # Nothing
      /\ x \in C /\ PendingIn(c, x) => PendingIn(d, x)
  BY DEF Elsewhere
<1> QED BY <1>1, <1>2

\* An event is stored and retained, and others may be evicted.
LEMMA ElsewhereSpared ==
  ASSUME NEW b \in Boxes, NEW r, NEW id \in Ids, NEW e, NEW C,
         r.ready = b.ready, r.queued = b.queued,
         Spared(r, [b.stored EXCEPT ![id] = e], [b.retained EXCEPT ![id] = e], C)
  PROVE  /\ Elsewhere(r, b, id, C)
         /\ \/ r.stored[id] = e /\ r.retained[id] = e
            \/ id \notin C /\ r.stored[id] = Nothing /\ r.retained[id] = Nothing
<1>1. /\ b.stored \in [Ids -> Version \cup {Nothing}]
      /\ b.retained \in [Ids -> Version \cup {Nothing}]
  BY BoxParts
<1>2. ASSUME NEW x \in Ids, x # id
      PROVE  \/ r.stored[x] = b.stored[x] /\ r.retained[x] = b.retained[x]
             \/ x \notin C /\ r.stored[x] = Nothing /\ r.retained[x] = Nothing
  BY <1>1, <1>2 DEF Spared
<1>3. \/ r.stored[id] = e /\ r.retained[id] = e
      \/ id \notin C /\ r.stored[id] = Nothing /\ r.retained[id] = Nothing
  BY <1>1 DEF Spared
<1>4. Elsewhere(r, b, id, C)
  BY <1>2 DEF Elsewhere, PendingIn
<1> QED BY <1>3, <1>4

\* Moving retained events up is about none of them.
LEMMA ElsewhereMoved ==
  ASSUME NEW b \in Boxes, NEW r, NEW C, NEW up \in SUBSET RetainedIds(b), MovedUp(r, b, up, C),
         NEW id
  PROVE  Elsewhere(r, b, id, C) /\ \A x \in Ids : PendingIn(b, x) => PendingIn(r, x)
<1>1. \A x \in Ids : /\ r.stored[x] = b.stored[x]
                     /\ r.retained[x] = IF x \in up THEN Nothing ELSE b.retained[x]
                     /\ x \in up => b.retained[x] # Nothing
  BY DEF MovedUp, RetainedIds
<1>2. /\ r.queued = b.queued \cup up
      /\ Range(r.ready.urgent) = Range(b.ready.urgent) \cup (up \cap C)
      /\ Range(r.ready.low) = Range(b.ready.low) \cup (up \ C)
  BY DEF MovedUp
<1>3. \A x \in Ids : PendingIn(b, x) => PendingIn(r, x)
  BY <1>1, <1>2 DEF PendingIn
<1>4. Elsewhere(r, b, id, C)
  BY <1>1, <1>2, <1>3 DEF Elsewhere
<1> QED BY <1>3, <1>4

\* Forgetting an event is about that event.
LEMMA ElsewhereForgotten ==
  ASSUME NEW b \in Boxes, NEW d, NEW id \in Ids, Forgotten(d, b, id), NEW C
  PROVE  Elsewhere(d, b, id, C)
<1>1. /\ b.stored \in [Ids -> Version \cup {Nothing}]
      /\ b.retained \in [Ids -> Version \cup {Nothing}]
  BY BoxParts
<1>2. \A x \in Ids : x # id => d.stored[x] = b.stored[x] /\ d.retained[x] = b.retained[x]
  BY <1>1 DEF Forgotten
<1>3. d.ready = b.ready /\ d.queued = b.queued \ {id}
  BY DEF Forgotten
<1> QED BY <1>2, <1>3 DEF Elsewhere, PendingIn

----------------------------------------------------------------------------
(* The inductive invariant.                                                *)

\* The critical events put so far.
CriticalIds == {id \in Ids : outcome[id] # "none"}

\* Those of them that must still be kept.
OpenIds == {id \in Ids : outcome[id] = "open"}

\* The outbox, the hands and the ids to come are as told above.
Told(b, hand, at, C, O, n) ==
  /\ BoxTold(b, C, O) /\ Fits(b)
  /\ HandSound(b, hand, at, C, O, n)
  /\ FreshTold(b, C, n)

\* The inductive invariant.
OutboxInv == OutboxTypeOK /\ Told(box, batch, pc, CriticalIds, OpenIds, puts)

\* The invariant in the form the proofs of the steps use it.
LEMMA InvGives ==
  ASSUME OutboxInv
  PROVE  /\ CriticalIds \in SUBSET Ids /\ OpenIds \in SUBSET CriticalIds /\ OpenIds \subseteq Ids
         /\ box \in Boxes /\ Depth(box) <= MaxSize /\ puts \in Int /\ puts \in 0 .. MaxPuts
         /\ batch \in Seq(Entry) /\ Len(batch) <= BatchSize
         /\ BoxTold(box, CriticalIds, OpenIds) /\ Fits(box)
         /\ HandSound(box, batch, pc, CriticalIds, OpenIds, puts)
         /\ FreshTold(box, CriticalIds, puts)
BY SizesAssumption DEF OutboxInv, OutboxTypeOK, Told, CriticalIds, OpenIds

\* A step that settles nothing leaves both sets alone.
LEMMA SameOutcome ==
  ASSUME outcome' = outcome
  PROVE  CriticalIds' = CriticalIds /\ OpenIds' = OpenIds
BY DEF CriticalIds, OpenIds

\* The promises follow.
LEMMA InvMeans ==
  ASSUME OutboxInv
  PROVE  CriticalKept
<1>1. OpenIsStored
  BY DEF OutboxInv, Told, HandSound, Kept, OpenIds, OpenIsStored, Pending, PendingIn, InReady, InHand
<1>2. StoresAgree
  BY DEF OutboxInv, Told, BoxTold, QueuedTold, IndexTold, Fits, StoresAgree, InReady
<1> QED BY <1>1, <1>2 DEF OutboxInv, CriticalKept

\* Nothing is owed at the start.
LEMMA InitTold ==
  ASSUME OutboxInit
  PROVE  OutboxInv
<1>1. box \in Boxes
  BY DEF OutboxInit, EmptyBox, Boxes
<1>2. /\ box.ready.urgent = <<>> /\ box.ready.low = <<>> /\ box.queued = {}
      /\ \A id \in Ids : box.stored[id] = Nothing /\ box.retained[id] = Nothing
      /\ \A k \in MergeKeys : box.index[k] = 0
  BY DEF OutboxInit, EmptyBox
<1>3. Range(box.ready.urgent) = {} /\ Range(box.ready.low) = {} /\ IsInjective(box.ready.urgent)
  BY <1>2 DEF Range, IsInjective
<1>4. CriticalIds = {} /\ OpenIds = {}
  BY DEF OutboxInit, CriticalIds, OpenIds
<1>5. Depth(box) = 0
  BY <1>2 DEF Depth
<1>6. OutboxTypeOK
  BY <1>1, <1>5, SizesAssumption DEF OutboxTypeOK, OutboxInit
<1>7. BoxTold(box, CriticalIds, OpenIds)
  BY <1>1, <1>2, <1>3, <1>4 DEF BoxTold, QueuedTold, IndexTold, KindsTold, LanesTold, OnePlace
<1>8. Fits(box)
  BY <1>2 DEF Fits, RetainedIds
<1>9. HandSound(box, batch, pc, CriticalIds, OpenIds, puts)
  BY <1>4, SizesAssumption
     DEF OutboxInit, HandSound, HandTold, RetainedTold, HandOnce, CriticalFirst, PcTold, Kept
<1>10. FreshTold(box, CriticalIds, puts)
  BY <1>2, <1>3, <1>4 DEF FreshTold
<1> QED BY <1>6, <1>7, <1>8, <1>9, <1>10 DEF OutboxInv, Told
\* The entries in hand.
LEMMA InHandAre ==
  ASSUME NEW hand \in Seq(Entry)
  PROVE  \A i \in DOMAIN hand : /\ hand[i] \in Entry /\ hand[i].id \in Ids
                                /\ hand[i].what \in Contents /\ hand[i].tries \in 0 .. MaxRetries
<1>1. \A i \in DOMAIN hand : hand[i] \in Entry
  BY LenProperties, ElementOfSeq
<1> QED BY <1>1 DEF Entry

\* A step of the worker that leaves the outbox and the batch alone.
LEMMA OnlyPcMoves ==
  ASSUME OutboxInv, OutboxTypeOK', UNCHANGED <<box, puts, batch, outcome>>,
         pc # "retrying", pc' # "retrying", Final(pc') => Final(pc), PcTold(batch, pc')
  PROVE  OutboxInv'
<1>1. CriticalIds' = CriticalIds /\ OpenIds' = OpenIds
  BY SameOutcome
<1>2. HandSound(box, batch, pc', CriticalIds, OpenIds, puts)
  BY InvGives, PcMoves
<1> QED BY <1>1, <1>2 DEF OutboxInv, Told

\* run(): the worker starts with empty hands.
LEMMA StartKeeps ==
  ASSUME OutboxInv, Start
  PROVE  OutboxInv'
<1>1. OutboxTypeOK'
  BY DEF OutboxInv, OutboxTypeOK, Start
<1>2. batch = <<>>
  BY InvGives DEF HandSound, PcTold, Start
<1>3. PcTold(batch, pc')
  BY <1>2, SizesAssumption DEF PcTold, Start
<1> QED BY <1>1, <1>3, OnlyPcMoves DEF Start, Final

\* get() waits until its patience is at an end.
LEMMA GetTimesOutKeeps ==
  ASSUME OutboxInv, GetTimesOut
  PROVE  OutboxInv'
<1>1. OutboxTypeOK'
  BY DEF OutboxInv, OutboxTypeOK, GetTimesOut
<1>2. pc' = IF batch = <<>> THEN "get" ELSE "classify"
  BY DEF GetTimesOut
<1>3. PcTold(batch, pc')
  BY <1>2, SizesAssumption DEF PcTold
<1> QED BY <1>1, <1>2, <1>3, OnlyPcMoves DEF GetTimesOut, Final

\* _write_kind: the database is told, the outbox is not.
LEMMA WriteKeeps ==
  ASSUME OutboxInv, Write
  PROVE  OutboxInv'
<1>1. written' \subseteq Ids
  <2>1. PICK ok \in SUBSET {i \in DOMAIN batch : batch[i].what \notin Unroutable} :
                 written' = {batch[i].id : i \in ok}
    BY DEF Write
  <2>2. \A i \in DOMAIN batch : batch[i].id \in Ids
    BY InvGives, InHandAre
  <2> QED BY <2>1, <2>2
<1>2. OutboxTypeOK'
  BY <1>1 DEF OutboxInv, OutboxTypeOK, Write
<1>3. pc' = IF batch = <<>> THEN "get" ELSE "settle"
  BY DEF Write
<1>4. PcTold(batch, pc')
  BY <1>3, SizesAssumption DEF PcTold
<1> QED BY <1>2, <1>3, <1>4, OnlyPcMoves DEF Write, Final

\* The deduper forgets what it has seen.
LEMMA ExpireKeeps ==
  ASSUME OutboxInv, NEW c \in Contents, Expire(c)
  PROVE  OutboxInv'
<1>1. OutboxTypeOK'
  BY DEF OutboxInv, OutboxTypeOK, Expire
<1>2. CriticalIds' = CriticalIds /\ OpenIds' = OpenIds
  BY SameOutcome DEF Expire
<1> QED BY <1>1, <1>2 DEF OutboxInv, Told, Expire

\* get() first moves up what the ready queue has room for.
LEMMA GetPromotesKeeps ==
  ASSUME OutboxInv, GetPromotes
  PROVE  OutboxInv'
<1> DEFINE C == CriticalIds
           O == OpenIds
<1>1. CriticalIds' = C /\ OpenIds' = O
  BY SameOutcome DEF GetPromotes
<1>2. /\ C \in SUBSET Ids /\ O \in SUBSET C /\ box \in Boxes /\ batch \in Seq(Entry)
      /\ BoxTold(box, C, O) /\ Fits(box) /\ Depth(box) <= MaxSize /\ puts \in Int
      /\ HandSound(box, batch, pc, C, O, puts) /\ FreshTold(box, C, puts)
  BY InvGives
<1>3. /\ box' = Promote(box) /\ pc = "get" /\ pc' \in {"take", "timeout"}
      /\ batch' = batch /\ puts' = puts /\ written' = written /\ seen' = seen
      /\ outcome' = outcome
  BY DEF GetPromotes
<1> HIDE DEF C, O
<1>4. /\ BoxTold(box', C, O) /\ Fits(box') /\ Depth(box') <= MaxSize
      /\ \E up \in SUBSET RetainedIds(box) : MovedUp(box', box, up, C)
  BY <1>2, <1>3, PromoteKeeps
<1>5. Elsewhere(box', box, 0, C)
  BY <1>2, <1>4, ElsewhereMoved
<1>6. /\ puts <= puts /\ 0 \notin Ids /\ 0 \in Int /\ O \subseteq Ids /\ O \subseteq C
      /\ \A i \in DOMAIN batch : batch[i].id # 0
  BY <1>2, IdsAre, InHandAre
<1>7. HandSound(box', batch, pc, C, O, puts)
  <2>1. ~ (pc = "retrying") /\ 0 \notin O
    BY <1>3, <1>6
  <2>2. SameBut(0, C, C) /\ SameBut(0, O, O) /\ ToldOf(0, box', batch, C \cup C, C, O, puts)
    BY <1>6 DEF SameBut, ToldOf
  <2> QED BY <1>2, <1>5, <1>6, <2>1, <2>2, SameHand
<1>8. HandSound(box', batch, pc', C, O, puts)
  <2>1. PcTold(batch, pc')
    BY <1>3, <1>7 DEF HandSound, PcTold
  <2>2. pc # "retrying" /\ pc' # "retrying" /\ (Final(pc') => Final(pc))
    BY <1>3 DEF Final
  <2> QED BY <1>7, <2>1, <2>2, PcMoves
<1>9. FreshTold(box', C, puts)
  <2>1. C \subseteq C \cup {0}
    OBVIOUS
  <2> QED BY <1>2, <1>5, <1>6, <2>1, FreshStays
<1>10. OutboxTypeOK'
  <2>1. box' \in Boxes
    BY <1>4 DEF BoxTold
  <2> QED BY <1>3, <1>4, <2>1 DEF OutboxInv, OutboxTypeOK
<1> QED BY <1>1, <1>3, <1>4, <1>8, <1>9, <1>10 DEF OutboxInv, Told

\* What is taken next is in one of the lanes.
LEMMA FirstIsReady ==
  ASSUME NEW b \in Boxes, Depth(b) > 0
  PROVE  First(b) \in Range(b.ready.urgent) \cup Range(b.ready.low)
<1>1. /\ b.ready.urgent \in Seq(Ids) /\ b.ready.low \in Seq(Ids)
      /\ Depth(b) = Len(b.ready.urgent) + Len(b.ready.low)
  BY BoxParts
<1>2. CASE b.ready.urgent # <<>>
  BY <1>1, <1>2, RangeOfTail DEF First
<1>3. CASE b.ready.urgent = <<>>
  <2>1. b.ready.low # <<>>
    <3> SUFFICES ASSUME b.ready.low = <<>>
                 PROVE  FALSE
      OBVIOUS
    <3>1. Len(b.ready.urgent) = 0 /\ Len(b.ready.low) = 0
      BY <1>3, EmptySeq
    <3> QED BY <1>1, <3>1
  <2> QED BY <1>1, <1>3, <2>1, RangeOfTail DEF First
<1> QED BY <1>2, <1>3

\* The first of the ready queue passes to the worker's hands.
LEMMA TakeKeeps ==
  ASSUME OutboxInv, Take
  PROVE  OutboxInv'
<1> DEFINE C == CriticalIds
           O == OpenIds
           id == First(box)
           e == box.stored[id]
           got == [id |-> id, what |-> e.what, tries |-> e.tries]
<1>1. CriticalIds' = C /\ OpenIds' = O
  BY SameOutcome DEF Take
<1>2. /\ C \in SUBSET Ids /\ O \in SUBSET C /\ box \in Boxes /\ batch \in Seq(Entry)
      /\ BoxTold(box, C, O) /\ Fits(box) /\ Depth(box) <= MaxSize /\ puts \in Int
      /\ HandSound(box, batch, pc, C, O, puts) /\ FreshTold(box, C, puts)
  BY InvGives
<1>3. /\ box' = Pop(box) /\ pc = "take" /\ Depth(box) > 0
      /\ IF e = Nothing
         THEN pc' = "get" /\ batch' = batch
         ELSE batch' = Append(batch, got) /\ pc' = IF Len(batch') < BatchSize THEN "get" ELSE "classify"
      /\ puts' = puts /\ written' = written /\ seen' = seen /\ outcome' = outcome
  BY DEF Take
<1>4. /\ BoxTold(box', C, O) /\ Fits(box') /\ Depth(box') = Depth(box) - 1 /\ id \in Ids
      /\ box'.stored = box.stored /\ box'.retained = box.retained
      /\ box'.queued = box.queued \ {id}
      /\ Range(box'.ready.urgent) \subseteq Range(box.ready.urgent)
      /\ Range(box'.ready.low) \subseteq Range(box.ready.low)
      /\ \A x \in Ids : x # id /\ x \in Range(box.ready.urgent) \cup Range(box.ready.low)
                          => x \in Range(box'.ready.urgent) \cup Range(box'.ready.low)
      /\ id \in C => id \in O /\ id \in Range(box.ready.urgent) /\ id \notin Range(box'.ready.urgent)
  <2>1. Popped(box', box, id, C, O)
    BY <1>2, <1>3, PopKeeps
  <2> QED BY <1>2, <2>1 DEF Popped
<1>5. e \in Version \cup {Nothing} /\ box.stored \in [Ids -> Version \cup {Nothing}]
  BY <1>2, <1>4, BoxParts
<1> HIDE DEF C, O, id, e
<1>6. \A x \in Ids : /\ x # id /\ PendingIn(box, x) => PendingIn(box', x)
                     /\ PendingIn(box, x) => PendingIn(box', x) \/ x = id
  BY <1>4 DEF PendingIn
<1>7. Elsewhere(box', box, id, C)
  BY <1>4, <1>6 DEF Elsewhere
<1>8. id <= puts /\ id \in Int
  <2>1. id \in Range(box.ready.urgent) \cup Range(box.ready.low)
    BY <1>2, <1>3, PopKeeps, FirstIsReady DEF id
  <2>2. id \in Int
    BY <1>4, IdsAre
  <2>3. ~ (id > puts)
    BY <1>2, <1>4, <2>1 DEF FreshTold
  <2> QED BY <1>2, <2>2, <2>3
<1>9. FreshTold(box', C, puts)
  <2>1. C \subseteq C \cup {id} /\ puts <= puts
    BY <1>2
  <2> QED BY <1>2, <1>7, <1>8, <2>1, FreshStays
<1>10. \A i \in DOMAIN batch : EntryTold(box', batch[i], C, O, puts)
  <2> SUFFICES ASSUME NEW i \in DOMAIN batch
               PROVE  EntryTold(box', batch[i], C, O, puts)
    OBVIOUS
  <2>1. EntryTold(box, batch[i], C, O, puts)
    BY <1>2 DEF HandSound, HandTold
  <2> QED BY <1>4, <2>1 DEF EntryTold
<1>11. Len(batch) < BatchSize /\ Len(batch) \in Nat
  BY <1>2, <1>3, LenProperties DEF HandSound, PcTold
<1>12. OutboxTypeOK' /\ HandSound(box', batch', pc', C, O, puts)
  <2>0. box' \in Boxes /\ Depth(box') <= MaxSize
    <3>1. box' \in Boxes /\ Depth(box) \in Nat
      BY <1>2, <1>4, BoxParts DEF BoxTold
    <3> QED BY <1>2, <1>4, <3>1, SizesAssumption
  <2>1. CASE e = Nothing
    <3>1. pc' = "get" /\ batch' = batch
      BY <1>3, <2>1
    <3>2. OutboxTypeOK'
      BY <1>3, <2>0, <3>1 DEF OutboxInv, OutboxTypeOK
    <3>3. id \notin O /\ id \notin C
      BY <1>2, <1>4, <2>1 DEF HandSound, Kept, e
    <3>4. HandSound(box', batch, pc, C, O, puts)
      <4>1. ~ (pc = "retrying") /\ puts <= puts /\ O \subseteq Ids /\ O \subseteq C
        BY <1>2, <1>3
      <4>2. \A i \in DOMAIN batch : batch[i].id = id => id \notin C \cup C /\ EntryTold(box', batch[i], C, O, puts)
        BY <1>10, <3>3
      <4>3. SameBut(id, C, C) /\ SameBut(id, O, O) /\ ToldOf(id, box', batch, C \cup C, C, O, puts)
        BY <4>2 DEF SameBut, ToldOf
      <4> QED BY <1>2, <1>7, <3>3, <4>1, <4>3, SameHand
    <3>5. HandSound(box', batch, "get", C, O, puts)
      <4>1. PcTold(batch, "get")
        BY <1>11 DEF PcTold
      <4>2. pc # "retrying" /\ (Final("get") => Final(pc))
        BY <1>3 DEF Final
      <4> QED BY <3>4, <4>1, <4>2, PcMoves
    <3> QED BY <3>1, <3>2, <3>5
  <2>2. CASE e # Nothing
    <3> DEFINE hand == Append(batch, got)
    <3>0. batch' = hand /\ pc' = IF Len(hand) < BatchSize THEN "get" ELSE "classify"
      BY <1>3, <2>2
    <3>1. e \in Version /\ e.what \in Contents /\ e.tries \in 0 .. MaxRetries
      BY <1>5, <2>2 DEF Version
    <3>2. got \in Entry /\ got.id = id /\ got.what = e.what /\ got.tries = e.tries
      BY <1>4, <3>1 DEF Entry
    <3> HIDE DEF got
    <3>3. /\ hand \in Seq(Entry) /\ Len(hand) = Len(batch) + 1
          /\ DOMAIN batch = 1 .. Len(batch) /\ DOMAIN hand = 1 .. Len(batch) + 1
          /\ \A i \in 1 .. Len(batch) : hand[i] = batch[i]
          /\ hand[Len(batch) + 1] = got
      BY <1>2, <3>2, AppendProperties, LenProperties
    <3> HIDE DEF hand
    <3>4. Len(hand) <= BatchSize
      BY <1>11, <3>3, SizesAssumption
    <3>5. OutboxTypeOK'
      BY <1>3, <2>0, <3>0, <3>3, <3>4 DEF OutboxInv, OutboxTypeOK
    <3>6. EntryTold(box', got, C, O, puts)
      <4>1. Critical(got) <=> id \in C
        BY <1>2, <1>4, <2>2, <3>2 DEF BoxTold, KindsTold, Critical, e
      <4> QED BY <1>4, <1>8, <2>2, <3>2, <4>1 DEF EntryTold, e
    <3>7. HandTold(box', hand, C, O, puts)
      <4> SUFFICES ASSUME NEW i \in DOMAIN hand
                   PROVE  EntryTold(box', hand[i], C, O, puts)
        BY DEF HandTold
      <4>1. CASE i = Len(batch) + 1
        BY <3>3, <3>6, <4>1
      <4>2. CASE i # Len(batch) + 1
        <5>1. i \in DOMAIN batch /\ hand[i] = batch[i]
          BY <1>11, <3>3, <4>2
        <5> QED BY <1>10, <5>1
      <4> QED BY <4>1, <4>2
    <3>8. pc' \in {"get", "classify"}
      BY <3>0
    <3>9. RetainedTold(box', hand, pc', C)
      <4>1. ASSUME NEW i \in DOMAIN hand, hand[i].id \in C
            PROVE  box'.retained[hand[i].id] = Nothing
        <5>1. CASE i = Len(batch) + 1
          <6>1. hand[i].id = id /\ id \in C
            BY <3>2, <3>3, <4>1, <5>1
          <6> QED BY <1>2, <1>4, <6>1 DEF BoxTold, OnePlace
        <5>2. CASE i # Len(batch) + 1
          <6>1. i \in DOMAIN batch /\ hand[i] = batch[i]
            BY <1>11, <3>3, <5>2
          <6>2. box.retained[hand[i].id] = Nothing
            BY <1>2, <1>3, <4>1, <6>1 DEF HandSound, RetainedTold
          <6> QED BY <1>4, <6>2
        <5> QED BY <5>1, <5>2
      <4> QED BY <3>8, <4>1 DEF RetainedTold
    <3>10. HandOnce(hand, pc', C)
      <4> SUFFICES ASSUME NEW i \in DOMAIN hand, NEW j \in DOMAIN hand, i # j,
                          hand[i].id = hand[j].id
                   PROVE  hand[i].id \notin C
        BY <3>8 DEF HandOnce, Final
      <4>1. ASSUME NEW m \in DOMAIN hand, m # Len(batch) + 1
            PROVE  /\ m \in DOMAIN batch /\ hand[m] = batch[m]
                   /\ batch[m].id \in C => batch[m].id \notin Range(box.ready.urgent)
        <5>1. m \in DOMAIN batch /\ hand[m] = batch[m]
          BY <1>11, <3>3, <4>1
        <5>2. EntryTold(box, batch[m], C, O, puts)
          BY <1>2, <5>1 DEF HandSound, HandTold
        <5> QED BY <5>1, <5>2 DEF EntryTold
      <4>2. CASE i = Len(batch) + 1
        <5>1. j # Len(batch) + 1 /\ hand[i].id = id
          BY <3>2, <3>3, <4>2
        <5> QED BY <1>4, <4>1, <5>1
      <4>3. CASE j = Len(batch) + 1
        <5>1. i # Len(batch) + 1 /\ hand[j].id = id
          BY <3>2, <3>3, <4>3
        <5> QED BY <1>4, <4>1, <5>1
      <4>4. CASE i # Len(batch) + 1 /\ j # Len(batch) + 1
        <5>1. i \in DOMAIN batch /\ j \in DOMAIN batch /\ hand[i] = batch[i] /\ hand[j] = batch[j]
          BY <4>1, <4>4
        <5> QED BY <1>2, <5>1 DEF HandSound, HandOnce
      <4> QED BY <4>2, <4>3, <4>4
    <3>11. CriticalFirst(hand, pc', C)
      BY <3>8 DEF CriticalFirst, Final
    <3>12. PcTold(hand, pc')
      BY <3>0 DEF PcTold
    <3>13. Kept(box', hand, O)
      <4> SUFFICES ASSUME NEW x \in O
                   PROVE  /\ box'.stored[x] # Nothing
                          /\ PendingIn(box', x) \/ \E i \in DOMAIN hand : hand[i].id = x
        BY DEF Kept
      <4>1. x \in Ids
        BY <1>2
      <4>2. box.stored[x] # Nothing /\ (PendingIn(box, x) \/ \E i \in DOMAIN batch : batch[i].id = x)
        BY <1>2 DEF HandSound, Kept
      <4>3. box'.stored[x] # Nothing
        BY <1>4, <4>2
      <4>4. ASSUME x = id
            PROVE  \E i \in DOMAIN hand : hand[i].id = x
        <5>1. Len(batch) + 1 \in DOMAIN hand /\ hand[Len(batch) + 1].id = x
          BY <1>11, <3>2, <3>3, <4>4
        <5> QED BY <5>1
      <4>5. ASSUME NEW i \in DOMAIN batch, batch[i].id = x
            PROVE  \E j \in DOMAIN hand : hand[j].id = x
        <5>1. i \in DOMAIN hand /\ hand[i].id = x
          BY <1>11, <3>3, <4>5
        <5> QED BY <5>1
      <4> QED BY <1>6, <4>1, <4>2, <4>3, <4>4, <4>5
    <3> QED BY <3>0, <3>5, <3>7, <3>9, <3>10, <3>11, <3>12, <3>13 DEF HandSound
  <2> QED BY <2>1, <2>2
<1> QED BY <1>1, <1>3, <1>4, <1>9, <1>12 DEF OutboxInv, Told

----------------------------------------------------------------------------
(* Settling a batch. *)

\* The event being settled.
LEMMA HeadTold ==
  ASSUME OutboxInv, pc \in {"settle", "retrying"}, NEW e, e = Head(batch)
  PROVE  /\ batch # <<>> /\ e = batch[1] /\ 1 \in DOMAIN batch
         /\ e \in Entry /\ e.id \in Ids /\ e.what \in Contents /\ e.tries \in 0 .. MaxRetries
         /\ EntryTold(box, e, CriticalIds, OpenIds, puts)
         /\ pc = "settle" /\ e.id \in CriticalIds => box.retained[e.id] = Nothing
         /\ pc = "retrying" => e.id \notin box.queued
         /\ e.id \in OpenIds => box.stored[e.id] # Nothing
         /\ Tail(batch) \in Seq(Entry) /\ Len(batch) \in Nat \ {0}
         /\ Len(Tail(batch)) = Len(batch) - 1
         /\ DOMAIN batch = 1 .. Len(batch) /\ DOMAIN Tail(batch) = 1 .. Len(batch) - 1
         /\ \A i \in 1 .. Len(batch) - 1 : Tail(batch)[i] = batch[i + 1]
<1>1. batch # <<>> /\ batch \in Seq(Entry)
  BY InvGives DEF HandSound, PcTold
<1>2. /\ e = batch[1] /\ 1 \in DOMAIN batch
      /\ Tail(batch) \in Seq(Entry) /\ Len(batch) \in Nat \ {0}
      /\ Len(Tail(batch)) = Len(batch) - 1
      /\ DOMAIN batch = 1 .. Len(batch) /\ DOMAIN Tail(batch) = 1 .. Len(batch) - 1
      /\ \A i \in 1 .. Len(batch) - 1 : Tail(batch)[i] = batch[i + 1]
  BY <1>1, RangeOfTail
<1>3. e \in Entry /\ e.id \in Ids /\ e.what \in Contents /\ e.tries \in 0 .. MaxRetries
  BY <1>1, <1>2, InHandAre
<1>4. /\ EntryTold(box, e, CriticalIds, OpenIds, puts)
      /\ pc = "settle" /\ e.id \in CriticalIds => box.retained[e.id] = Nothing
      /\ pc = "retrying" => e.id \notin box.queued
      /\ e.id \in OpenIds => box.stored[e.id] # Nothing
  BY <1>2, InvGives DEF HandSound, HandTold, RetainedTold, Kept
<1> QED BY <1>1, <1>2, <1>3, <1>4

\* What ends an event opens and closes no other.
LEMMA EndsOne ==
  ASSUME OutboxInv, pc \in {"settle", "retrying"}, NEW e, e = Head(batch),
         NEW how \in {"written", "dead"}, End(e, how)
  PROVE  /\ CriticalIds' = CriticalIds /\ OpenIds' = OpenIds \ {e.id}
         /\ outcome' \in [Ids -> {"none", "open", "written", "dead", "filtered", "counted"}]
<1>1. /\ e.id \in Ids /\ (Critical(e) <=> e.id \in CriticalIds)
      /\ e.id \in CriticalIds => e.id \in OpenIds
  BY HeadTold DEF EntryTold
<1>2. /\ outcome' = IF Critical(e) THEN [outcome EXCEPT ![e.id] = how] ELSE outcome
      /\ outcome \in [Ids -> {"none", "open", "written", "dead", "filtered", "counted"}]
  BY DEF End, OutboxInv, OutboxTypeOK
<1>3. CASE Critical(e)
  <2>1. outcome[e.id] = "open"
    BY <1>1, <1>3 DEF OpenIds
  <2> QED BY <1>1, <1>2, <1>3, <2>1 DEF CriticalIds, OpenIds
<1>4. CASE ~ Critical(e)
  <2>1. outcome' = outcome /\ e.id \notin OpenIds
    BY <1>1, <1>2, <1>4 DEF CriticalIds, OpenIds
  <2> QED BY <1>2, <2>1 DEF CriticalIds, OpenIds
<1> QED BY <1>3, <1>4

\* The worker goes on to the next event of the batch.
LEMMA SettledKeeps ==
  ASSUME OutboxInv, pc \in {"settle", "retrying"}, GoOn, UNCHANGED <<puts, seen>>,
         NEW id, id = Head(batch).id,
         CriticalIds' = CriticalIds, OpenIds' \subseteq OpenIds, OpenIds \subseteq OpenIds' \cup {id},
         outcome' \in [Ids -> {"none", "open", "written", "dead", "filtered", "counted"}],
         Elsewhere(box', box, id, CriticalIds),
         BoxTold(box', CriticalIds, OpenIds'), Fits(box'), Depth(box') <= MaxSize,
         id \in OpenIds' => box'.stored[id] # Nothing /\ PendingIn(box', id)
  PROVE  OutboxInv'
<1> DEFINE C == CriticalIds
           O == OpenIds
           P == OpenIds'
<1>1. /\ C \in SUBSET Ids /\ O \in SUBSET C /\ O \subseteq Ids /\ batch \in Seq(Entry)
      /\ puts \in Int /\ HandSound(box, batch, pc, C, O, puts) /\ FreshTold(box, C, puts)
      /\ puts \in 0 .. MaxPuts /\ Len(batch) <= BatchSize
  BY InvGives
<1>2. /\ batch' = Tail(batch) /\ pc' = IF Len(batch) = 1 THEN "get" ELSE "settle"
      /\ written' = written \ {Head(batch).id} /\ puts' = puts /\ seen' = seen
  BY DEF GoOn
<1>3. /\ batch # <<>> /\ id = batch[1].id /\ id \in Ids /\ id <= puts
      /\ Tail(batch) \in Seq(Entry) /\ Len(batch) \in Nat \ {0} /\ Len(Tail(batch)) = Len(batch) - 1
  BY HeadTold DEF EntryTold
<1>4. OutboxTypeOK'
  <2>1. box' \in Boxes
    BY DEF BoxTold
  <2>2. batch' \in Seq(Entry) /\ Len(batch') <= BatchSize
    BY <1>1, <1>2, <1>3, SizesAssumption
  <2>3. written' \subseteq Ids /\ seen' \subseteq Contents
    BY <1>2 DEF OutboxInv, OutboxTypeOK
  <2> QED BY <1>1, <1>2, <2>1, <2>2, <2>3 DEF OutboxTypeOK
<1>5. HandSound(box', batch', pc', C, P, puts)
  <2> HIDE DEF C, O, P
  <2>1. O \subseteq C /\ P \subseteq O /\ O \subseteq P \cup {id} /\ Elsewhere(box', box, id, C)
        /\ (id \in P => box'.stored[id] # Nothing /\ PendingIn(box', id))
    BY <1>1 DEF C, O, P
  <2>2. Elsewhere(box', box, batch[1].id, C) /\ O \subseteq P \cup {batch[1].id}
        /\ (batch[1].id \in P => box'.stored[batch[1].id] # Nothing /\ PendingIn(box', batch[1].id))
    BY <1>3, <2>1
  <2>3. HandSound(box', Tail(batch), IF Len(batch) = 1 THEN "get" ELSE "settle", C, P, puts)
    BY <1>1, <1>3, <2>1, <2>2, OneSettled
  <2> QED BY <1>2, <2>3
<1>6. FreshTold(box', C, puts)
  <2>1. C \subseteq C \cup {id} /\ puts <= puts /\ id \in Int /\ Elsewhere(box', box, id, C)
    BY <1>1, <1>3, IdsAre
  <2> QED BY <1>1, <1>3, <2>1, FreshStays
<1> QED BY <1>2, <1>4, <1>5, <1>6 DEF OutboxInv, Told

\* ack: a written event is forgotten; it need not be kept any longer.
LEMMA AcknowledgeKeeps ==
  ASSUME OutboxInv, NEW e, Acknowledge(e)
  PROVE  OutboxInv'
<1> DEFINE C == CriticalIds
           O == OpenIds
<1>1. /\ C \in SUBSET Ids /\ O \in SUBSET C /\ box \in Boxes
      /\ BoxTold(box, C, O) /\ Fits(box) /\ Depth(box) <= MaxSize
  BY InvGives
<1>2. /\ pc = "settle" /\ e = Head(batch) /\ box' = Ack(box, e.id) /\ End(e, "written")
      /\ GoOn /\ UNCHANGED <<puts, seen>>
  BY DEF Acknowledge, Settling
<1>3. e.id \in Ids /\ (e.id \in C => e.id \notin Range(box.ready.urgent))
  BY <1>2, HeadTold DEF EntryTold
<1>4. /\ CriticalIds' = C /\ OpenIds' = O \ {e.id}
      /\ outcome' \in [Ids -> {"none", "open", "written", "dead", "filtered", "counted"}]
  BY <1>2, EndsOne
<1> HIDE DEF C, O
<1>5. /\ BoxTold(box', C, OpenIds') /\ Fits(box') /\ Depth(box') <= MaxSize
      /\ \E d \in Boxes : /\ Forgotten(d, box, e.id) /\ d.retained[e.id] = Nothing
                          /\ \E up \in SUBSET RetainedIds(d) : MovedUp(box', d, up, C)
  BY <1>1, <1>2, <1>3, <1>4, AckKeeps
<1>6. PICK d \in Boxes : Forgotten(d, box, e.id) /\ \E up \in SUBSET RetainedIds(d) : MovedUp(box', d, up, C)
  BY <1>5
<1>7. Elsewhere(d, box, e.id, C) /\ Elsewhere(box', d, e.id, C)
  BY <1>1, <1>3, <1>6, ElsewhereForgotten, ElsewhereMoved
<1>8. Elsewhere(box', box, e.id, C)
  BY <1>7, ElsewhereTwice
<1>9. /\ CriticalIds' = CriticalIds /\ OpenIds' \subseteq OpenIds
      /\ OpenIds \subseteq OpenIds' \cup {e.id} /\ e.id \notin OpenIds'
      /\ BoxTold(box', CriticalIds, OpenIds') /\ Elsewhere(box', box, e.id, CriticalIds)
  BY <1>4, <1>5, <1>8 DEF C, O
<1> QED BY <1>2, <1>4, <1>5, <1>9, SettledKeeps

\* Putting what was there changes nothing.
LEMMA ExceptItself ==
  ASSUME NEW S, NEW T, NEW f \in [S -> T], NEW x \in S
  PROVE  [f EXCEPT ![x] = f[x]] = f
OBVIOUS

\* dead_letter: an event that may not be tried again is forgotten and accounted for.
LEMMA DeadLetterKeeps ==
  ASSUME OutboxInv, NEW e, DeadLetter(e)
  PROVE  OutboxInv'
<1> DEFINE C == CriticalIds
           O == OpenIds
<1>1. /\ C \in SUBSET Ids /\ O \in SUBSET C /\ box \in Boxes
      /\ BoxTold(box, C, O) /\ Fits(box) /\ Depth(box) <= MaxSize
  BY InvGives
<1>2. /\ pc = "settle" /\ e = Head(batch) /\ End(e, "dead") /\ GoOn /\ UNCHANGED <<puts, seen>>
      /\ box' = [box EXCEPT !.stored[e.id] = Nothing,
                            !.retained[e.id] = IF box.stored[e.id] # Nothing THEN @ ELSE Nothing,
                            !.queued = @ \ {e.id},
                            !.index = Unindexed(box, {e.id})]
  BY DEF DeadLetter, Settling
<1>3. e.id \in Ids /\ (e.id \in C => e.id \notin Range(box.ready.urgent) /\ box.retained[e.id] = Nothing)
  BY <1>2, HeadTold DEF EntryTold
<1>4. /\ CriticalIds' = C /\ OpenIds' = O \ {e.id}
      /\ outcome' \in [Ids -> {"none", "open", "written", "dead", "filtered", "counted"}]
  BY <1>2, EndsOne
<1>5. Forgotten(box', box, e.id) /\ Depth(box') = Depth(box)
  <2>1. /\ box.stored \in [Ids -> Version \cup {Nothing}]
        /\ box.retained \in [Ids -> Version \cup {Nothing}]
        /\ box.queued \in SUBSET Ids
        /\ box.index \in [MergeKeys -> Ids \cup {0}]
    BY <1>1, BoxParts
  <2>2. Unindexed(box, {e.id}) = [k \in MergeKeys |-> IF box.index[k] \in {e.id} THEN 0 ELSE box.index[k]]
    BY DEF Unindexed
  <2> DEFINE left == IF box.stored[e.id] # Nothing
                       THEN box.retained ELSE [box.retained EXCEPT ![e.id] = Nothing]
  <2>6. [box.retained EXCEPT ![e.id] = IF box.stored[e.id] # Nothing THEN @ ELSE Nothing] = left
    BY <1>3, <2>1, ExceptItself
  <2>7. left \in [Ids -> Version \cup {Nothing}]
    BY <2>1
  <2>3. /\ box'.ready = box.ready /\ box'.queued = box.queued \ {e.id}
        /\ box'.stored = [box.stored EXCEPT ![e.id] = Nothing]
        /\ box'.retained = left
        /\ box'.index = Unindexed(box, {e.id})
        /\ box' = [ready |-> box'.ready, stored |-> box'.stored, queued |-> box'.queued,
                   retained |-> box'.retained, index |-> box'.index]
    BY <1>1, <1>2, <2>6 DEF Boxes
  <2>4. left = [box.retained EXCEPT ![e.id] = Nothing] \/ left = box.retained
    OBVIOUS
  <2> HIDE DEF left
  <2>5. box' \in Boxes
    <3>1. box'.ready \in [urgent : Seq(Ids), low : Seq(Ids)]
      BY <1>1, <2>3, BoxParts
    <3>2. box'.stored \in [Ids -> Version \cup {Nothing}]
      BY <1>3, <2>1, <2>3
    <3>3. box'.index \in [MergeKeys -> Ids \cup {0}]
      <4>1. Unindexed(box, {e.id}) \in [MergeKeys -> Ids \cup {0}]
        BY <2>1, <2>2
      <4> QED BY <2>3, <4>1
    <3>4. box'.queued \in SUBSET Ids
      BY <2>1, <2>3
    <3> QED BY <2>3, <2>7, <3>1, <3>2, <3>3, <3>4 DEF Boxes
  <2> QED BY <2>1, <2>2, <2>3, <2>4, <2>5 DEF Forgotten, Depth
<1>6. box'.retained[e.id] = box.retained[e.id] \/ box'.retained[e.id] = Nothing
  <2>1. box.retained \in [Ids -> Version \cup {Nothing}]
    BY <1>1, BoxParts
  <2> QED BY <1>3, <1>5, <2>1 DEF Forgotten
<1> HIDE DEF C, O
<1>7. BoxTold(box', C, OpenIds') /\ Fits(box') /\ Elsewhere(box', box, e.id, C)
  BY <1>1, <1>3, <1>4, <1>5, <1>6, ForgottenKeeps, ElsewhereForgotten
<1>8. /\ CriticalIds' = CriticalIds /\ OpenIds' \subseteq OpenIds
      /\ OpenIds \subseteq OpenIds' \cup {e.id} /\ e.id \notin OpenIds'
      /\ BoxTold(box', CriticalIds, OpenIds') /\ Elsewhere(box', box, e.id, CriticalIds)
      /\ Depth(box') <= MaxSize
  BY <1>1, <1>4, <1>5, <1>7 DEF C, O
<1> QED BY <1>2, <1>4, <1>7, <1>8, SettledKeeps

\* An event is gone that was not critical; then no critical one is left in the batch.
LEMMA UnknownKeeps ==
  ASSUME OutboxInv, NEW e, Unknown(e)
  PROVE  OutboxInv'
<1> DEFINE C == CriticalIds
           O == OpenIds
<1>1. /\ C \in SUBSET Ids /\ O \in SUBSET C /\ box \in Boxes /\ batch \in Seq(Entry)
      /\ HandSound(box, batch, pc, C, O, puts)
  BY InvGives
<1>2. /\ pc = "settle" /\ e = Head(batch) /\ Current(box, e.id) = Nothing
      /\ batch' = <<>> /\ written' = {} /\ pc' = "off"
      /\ UNCHANGED <<box, puts, seen, outcome>>
  BY DEF Unknown, Settling
<1>3. CriticalIds' = C /\ OpenIds' = O
  BY <1>2, SameOutcome
<1>4. box.stored[e.id] = Nothing
  BY <1>2 DEF Current
<1>5. e.id \notin C /\ e = batch[1] /\ 1 \in DOMAIN batch /\ DOMAIN batch = 1 .. Len(batch)
      /\ Len(batch) \in Nat
  BY <1>2, <1>4, HeadTold DEF EntryTold
<1> HIDE DEF C, O
<1>6. ASSUME NEW i \in DOMAIN batch
      PROVE  batch[i].id \notin C
  <2>1. CASE i = 1
    BY <1>5, <2>1
  <2>2. CASE i # 1
    <3>1. 1 < i
      BY <1>5, <2>2
    <3> QED BY <1>1, <1>2, <1>5, <3>1 DEF HandSound, CriticalFirst, Final
  <2> QED BY <2>1, <2>2
<1>7. HandSound(box, <<>>, "off", C, O, puts)
  <2>1. Kept(box, <<>>, O)
    <3> SUFFICES ASSUME NEW x \in O
                 PROVE  box.stored[x] # Nothing /\ PendingIn(box, x)
      BY DEF Kept
    <3>1. x \in C
      BY <1>1
    <3> QED BY <1>1, <1>6, <3>1 DEF HandSound, Kept
  <2>2. PcTold(<<>>, "off") /\ RetainedTold(box, <<>>, "off", C)
    BY DEF PcTold, RetainedTold
  <2>3. HandTold(box, <<>>, C, O, puts) /\ HandOnce(<<>>, "off", C) /\ CriticalFirst(<<>>, "off", C)
    BY DEF HandTold, HandOnce, CriticalFirst
  <2> QED BY <2>1, <2>2, <2>3 DEF HandSound
<1>8. OutboxTypeOK'
  BY <1>2, SizesAssumption DEF OutboxInv, OutboxTypeOK
<1> QED BY <1>2, <1>3, <1>7, <1>8 DEF OutboxInv, Told, C, O

\* An event is stored and retained anew, if it is not evicted at once.
RetainedAs(r, b, id, v, C, O) ==
  /\ BoxTold(r, C, O) /\ Fits(r) /\ r.ready = b.ready /\ r.queued = b.queued
  /\ Depth(r) = Depth(b) /\ Elsewhere(r, b, id, C)
  /\ \/ r.stored[id] = v /\ r.retained[id] = v
     \/ id \notin C /\ r.stored[id] = Nothing /\ r.retained[id] = Nothing

\* What is read of an event and put back is a version of the same kind and key.
LEMMA RetainedAgain ==
  ASSUME NEW b, NEW C \in SUBSET Ids, NEW O \in SUBSET C, BoxTold(b, C, O),
         NEW id \in Ids, NEW v \in Version, Critical(v) <=> id \in C,
         b.stored[id] # Nothing => KeyOf[b.stored[id].what] = KeyOf[v.what],
         id \notin b.queued, id \in C => id \in O /\ id \notin Range(b.ready.urgent),
         NEW r, r = StoreRetained(b, id, v)
  PROVE  RetainedAs(r, b, id, v, C, O)
<1>1. /\ BoxTold(r, C, O) /\ Fits(r) /\ r.ready = b.ready /\ r.queued = b.queued
      /\ Spared(r, [b.stored EXCEPT ![id] = v], [b.retained EXCEPT ![id] = v], C)
  BY StoreRetainedKeeps
<1>2. b \in Boxes
  BY DEF BoxTold
<1>3. /\ Elsewhere(r, b, id, C)
      /\ \/ r.stored[id] = v /\ r.retained[id] = v
         \/ id \notin C /\ r.stored[id] = Nothing /\ r.retained[id] = Nothing
  BY <1>1, <1>2, ElsewhereSpared
<1>4. Depth(r) = Depth(b)
  BY <1>1 DEF Depth
<1> QED BY <1>1, <1>3, <1>4 DEF RetainedAs

\* An event is stored, and nothing changes elsewhere.
StoredAnew(r, b, id, v, C, O) ==
  StoredAs(r, b, id, v, C, O) /\ Depth(r) = Depth(b) /\ Elsewhere(r, b, id, C)

\* store_pending, as the steps of the worker and of put_nowait use it.
LEMMA StoredAgain ==
  ASSUME NEW b, NEW C \in SUBSET Ids, NEW O \in SUBSET C, BoxTold(b, C, O),
         NEW id \in Ids, NEW v \in Version, Critical(v) <=> id \in C,
         b.stored[id] # Nothing => KeyOf[b.stored[id].what] = KeyOf[v.what],
         NEW r, r = StorePending(b, id, v)
  PROVE  StoredAnew(r, b, id, v, C, O)
<1>1. StoredAs(r, b, id, v, C, O)
  BY StorePendingKeeps
<1>2. Elsewhere(r, b, id, C)
  BY <1>1 DEF Elsewhere, PendingIn, StoredAs, Replaced
<1>3. Depth(r) = Depth(b)
  BY <1>1 DEF Depth, StoredAs
<1> QED BY <1>1, <1>2, <1>3 DEF StoredAnew

\* retry() finds no room while it may wait: the event stays retained.
LEMMA RetryGivesUpKeeps ==
  ASSUME OutboxInv, RetryGivesUp
  PROVE  OutboxInv'
<1> DEFINE C == CriticalIds
           O == OpenIds
           e == Head(batch)
           v == [what |-> e.what, tries |-> e.tries]
<1>1. /\ C \in SUBSET Ids /\ O \in SUBSET C /\ box \in Boxes
      /\ BoxTold(box, C, O) /\ Depth(box) <= MaxSize
  BY InvGives
<1>2. /\ pc = "retrying" /\ box' = StoreRetained(box, e.id, v) /\ GoOn
      /\ UNCHANGED <<puts, seen, outcome>>
  BY DEF RetryGivesUp
<1>3. CriticalIds' = C /\ OpenIds' = O
  BY <1>2, SameOutcome
<1>4. /\ e.id \in Ids /\ e.what \in Contents /\ e.tries \in 0 .. MaxRetries
      /\ e.id \notin box.queued /\ EntryTold(box, e, C, O, puts)
  BY <1>2, HeadTold
<1>5. v \in Version /\ (Critical(v) <=> e.id \in C) /\ v.what = e.what
  BY <1>4 DEF Version, EntryTold, Critical
<1>6. /\ box.stored[e.id] # Nothing => KeyOf[box.stored[e.id].what] = KeyOf[v.what]
      /\ e.id \in C => e.id \in O /\ e.id \notin Range(box.ready.urgent)
  BY <1>4, <1>5 DEF EntryTold
<1> HIDE DEF C, O, e, v
<1>7. /\ BoxTold(box', C, O) /\ Fits(box') /\ Depth(box') = Depth(box)
      /\ Elsewhere(box', box, e.id, C)
      /\ \/ box'.stored[e.id] = v /\ box'.retained[e.id] = v
         \/ e.id \notin C /\ box'.stored[e.id] = Nothing /\ box'.retained[e.id] = Nothing
  <2>1. RetainedAs(box', box, e.id, v, C, O)
    BY <1>1, <1>2, <1>4, <1>5, <1>6, RetainedAgain
  <2> QED BY <2>1 DEF RetainedAs
<1>8. e.id \in O => box'.stored[e.id] # Nothing /\ PendingIn(box', e.id)
  BY <1>1, <1>5, <1>7, NotNothing DEF PendingIn
<1>9. outcome' \in [Ids -> {"none", "open", "written", "dead", "filtered", "counted"}]
  BY <1>2 DEF OutboxInv, OutboxTypeOK
<1>10. /\ CriticalIds' = CriticalIds /\ OpenIds' = OpenIds /\ e.id = Head(batch).id
       /\ BoxTold(box', CriticalIds, OpenIds') /\ Elsewhere(box', box, e.id, CriticalIds)
       /\ Depth(box') <= MaxSize
       /\ e.id \in OpenIds' => box'.stored[e.id] # Nothing /\ PendingIn(box', e.id)
  BY <1>1, <1>3, <1>7, <1>8 DEF C, O, e
<1> QED BY <1>2, <1>7, <1>9, <1>10, SettledKeeps

\* A sequence with one element more at its front.
LEMMA InFront ==
  ASSUME NEW S, NEW x \in S, NEW r \in Seq(S)
  PROVE  /\ <<x>> \o r \in Seq(S) /\ Len(<<x>> \o r) = Len(r) + 1
         /\ DOMAIN (<<x>> \o r) = 1 .. Len(r) + 1
         /\ (<<x>> \o r)[1] = x
         /\ \A i \in 1 .. Len(r) : (<<x>> \o r)[i + 1] = r[i]
<1> DEFINE f == <<x>>
<1>1. f \in Seq(S) /\ Len(f) = 1 /\ f[1] = x
  OBVIOUS
<1> HIDE DEF f
<1>2. /\ f \o r \in Seq(S) /\ Len(f \o r) = Len(f) + Len(r) /\ Len(r) \in Nat
      /\ \A i \in 1 .. Len(f) + Len(r) : (f \o r)[i] = IF i <= Len(f) THEN f[i] ELSE r[i - Len(f)]
  BY <1>1, ConcatProperties, LenProperties
<1>3. DOMAIN (f \o r) = 1 .. Len(r) + 1 /\ Len(f \o r) = Len(r) + 1
  BY <1>1, <1>2, LenProperties
<1>4. (f \o r)[1] = x
  BY <1>1, <1>2
<1>5. \A i \in 1 .. Len(r) : (f \o r)[i + 1] = r[i]
  BY <1>1, <1>2
<1> QED BY <1>2, <1>3, <1>4, <1>5 DEF f

\* What a retry stores: the event as it is stored by now, with one more try.
Again(v, old, e) ==
  /\ old \in Version /\ v \in Version /\ v.what = old.what /\ v.tries = old.tries + 1
  /\ Critical(v) <=> e.id \in CriticalIds
  /\ box.stored[e.id] # Nothing => KeyOf[box.stored[e.id].what] = KeyOf[v.what]
  /\ e.id \in CriticalIds => /\ e.id \in OpenIds /\ e.id \notin Range(box.ready.urgent)
                             /\ e.id \notin box.queued
  /\ e.id \in Ids

\* The version that is tried again is the one stored, with one try more.
LEMMA RetriedIs ==
  ASSUME OutboxInv, NEW e, Settling(e), e.tries < MaxRetries,
         NEW old, old = Current(box, e.id), old # Nothing,
         NEW v, v = [old EXCEPT !.tries = @ + 1]
  PROVE  Again(v, old, e)
<1>1. pc = "settle" /\ e = Head(batch)
  BY DEF Settling
<1>2. e.id \in Ids /\ EntryTold(box, e, CriticalIds, OpenIds, puts)
  BY <1>1, HeadTold
<1>3. /\ box \in Boxes /\ BoxTold(box, CriticalIds, OpenIds)
      /\ box.stored \in [Ids -> Version \cup {Nothing}]
  BY InvGives, BoxParts
<1>4. box.stored[e.id] # Nothing
  BY <1>2 DEF EntryTold, Current
<1>5. old = box.stored[e.id] /\ old \in Version /\ old.tries = e.tries /\ KeyOf[old.what] = KeyOf[e.what]
  BY <1>2, <1>3, <1>4 DEF EntryTold, Current
<1>6. old.what \in Contents /\ old.tries \in 0 .. MaxRetries
  BY <1>5 DEF Version
<1>7. v.what = old.what /\ v.tries = old.tries + 1
  BY <1>5 DEF Version
<1>8. v \in Version
  BY <1>5, <1>6, SizesAssumption DEF Version
<1>9. Critical(v) <=> e.id \in CriticalIds
  BY <1>2, <1>5, <1>7 DEF EntryTold, Critical
<1>10. e.id \in CriticalIds => /\ e.id \in OpenIds /\ e.id \notin Range(box.ready.urgent)
                               /\ e.id \notin box.queued
  BY <1>2, <1>3 DEF EntryTold, BoxTold, LanesTold, QueuedTold
<1> QED BY <1>2, <1>5, <1>7, <1>8, <1>9, <1>10 DEF Again

\* The event is known as queued: then it is not critical, and is only stored anew.
LEMMA RetryQueuedKeeps ==
  ASSUME OutboxInv, NEW e, Settling(e), NEW old, NEW v, Again(v, old, e),
         e.id \in box.queued, box' = StorePending(box, e.id, v), GoOn,
         UNCHANGED <<puts, seen, outcome>>
  PROVE  OutboxInv'
<1> DEFINE C == CriticalIds
           O == OpenIds
           id == e.id
<1>1. /\ C \in SUBSET Ids /\ O \in SUBSET C /\ box \in Boxes
      /\ BoxTold(box, C, O) /\ Fits(box) /\ Depth(box) <= MaxSize
  BY InvGives
<1>2. CriticalIds' = C /\ OpenIds' = O
  BY SameOutcome
<1>3. /\ id \in Ids /\ v \in Version /\ (Critical(v) <=> id \in C) /\ id \notin C
      /\ box.stored[id] # Nothing => KeyOf[box.stored[id].what] = KeyOf[v.what]
  BY DEF Again
<1> HIDE DEF C, O, id
<1>4. box' = StorePending(box, id, v) /\ pc = "settle" /\ id = Head(batch).id
  BY DEF id, Settling
<1>5. StoredAnew(box', box, id, v, C, O)
  BY <1>1, <1>3, <1>4, StoredAgain
<1>6. /\ BoxTold(box', C, O) /\ Fits(box') /\ Depth(box') = Depth(box)
      /\ Elsewhere(box', box, id, C)
  BY <1>1, <1>5 DEF StoredAnew, StoredAs
<1>8. outcome' \in [Ids -> {"none", "open", "written", "dead", "filtered", "counted"}]
  BY DEF OutboxInv, OutboxTypeOK
<1>9. /\ CriticalIds' = CriticalIds /\ OpenIds' = OpenIds /\ id \notin OpenIds'
      /\ BoxTold(box', CriticalIds, OpenIds') /\ Elsewhere(box', box, id, CriticalIds)
      /\ Depth(box') <= MaxSize /\ Fits(box')
  BY <1>1, <1>2, <1>3, <1>6 DEF C, O
<1> QED BY <1>4, <1>8, <1>9, SettledKeeps

\* There is room: the event enters the ready queue.
Requeued(s, id, v) ==
  [Enter(s, id, v) EXCEPT !.queued = @ \cup {id}, !.retained[id] = Nothing]

\* retry() finds room at once: the event is queued again.
LEMMA RetryEntersKeeps ==
  ASSUME OutboxInv, NEW e, Settling(e), NEW old, NEW v, Again(v, old, e),
         e.id \notin box.queued, NEW s, s = StoreRetained(box, e.id, v), Room(s) > 0,
         box' = Requeued(s, e.id, v),
         GoOn, UNCHANGED <<puts, seen, outcome>>
  PROVE  OutboxInv'
<1> DEFINE C == CriticalIds
           O == OpenIds
           id == e.id
<1>1. /\ C \in SUBSET Ids /\ O \in SUBSET C /\ box \in Boxes
      /\ BoxTold(box, C, O) /\ Fits(box) /\ Depth(box) <= MaxSize
  BY InvGives
<1>2. CriticalIds' = C /\ OpenIds' = O
  BY SameOutcome
<1>3. /\ id \in Ids /\ v \in Version /\ (Critical(v) <=> id \in C)
      /\ id \in C => id \in O /\ id \notin Range(box.ready.urgent)
      /\ box.stored[id] # Nothing => KeyOf[box.stored[id].what] = KeyOf[v.what]
  BY DEF Again
<1> HIDE DEF C, O, id
<1>4. /\ s = StoreRetained(box, id, v) /\ pc = "settle" /\ id = Head(batch).id
      /\ id \notin box.queued
      /\ box' = Requeued(s, id, v)
  BY DEF id, Settling
<1>5. RetainedAs(s, box, id, v, C, O)
  BY <1>1, <1>3, <1>4, RetainedAgain
<1>6. /\ BoxTold(s, C, O) /\ Fits(s) /\ s.ready = box.ready /\ s.queued = box.queued
      /\ Elsewhere(s, box, id, C) /\ s \in Boxes
      /\ \/ s.stored[id] = v /\ s.retained[id] = v
         \/ id \notin C /\ s.stored[id] = Nothing /\ s.retained[id] = Nothing
  BY <1>5 DEF RetainedAs, BoxTold
<1>7. /\ Enter(s, id, v) \in Boxes
      /\ Enter(s, id, v).stored = s.stored /\ Enter(s, id, v).retained = s.retained
      /\ Enter(s, id, v).queued = s.queued /\ Enter(s, id, v).index = s.index
  BY <1>3, <1>6, EnterAdds
<1>8. /\ s.retained \in [Ids -> Version \cup {Nothing}] /\ s.queued \in SUBSET Ids
  BY <1>6, BoxParts
<1>9. /\ box' \in Boxes /\ box'.ready = Enter(s, id, v).ready
      /\ box'.stored = s.stored /\ box'.index = s.index /\ box'.queued = s.queued \cup {id}
      /\ Replaced(box'.retained, s.retained, id, Nothing)
  <2> DEFINE n == Enter(s, id, v)
  <2>1. /\ n \in Boxes /\ n.stored = s.stored /\ n.retained = s.retained
        /\ n.queued = s.queued /\ n.index = s.index
        /\ box' = [n EXCEPT !.queued = @ \cup {id}, !.retained[id] = Nothing]
    BY <1>4, <1>7 DEF Requeued
  <2> HIDE DEF n
  <2>2. /\ box'.ready = n.ready /\ box'.stored = n.stored /\ box'.index = n.index
        /\ box'.queued = n.queued \cup {id}
        /\ box'.retained = [n.retained EXCEPT ![id] = Nothing]
        /\ box' = [ready |-> box'.ready, stored |-> box'.stored, queued |-> box'.queued,
                   retained |-> box'.retained, index |-> box'.index]
    BY <2>1 DEF Boxes
  <2>3. [s.retained EXCEPT ![id] = Nothing] \in [Ids -> Version \cup {Nothing}]
    BY <1>3, <1>8
  <2>4. s.queued \cup {id} \in SUBSET Ids
    <3>1. s.queued \subseteq Ids
      BY <1>8
    <3> QED BY <1>3, <3>1
  <2>5. box' \in Boxes
    <3>1. /\ n.ready \in [urgent : Seq(Ids), low : Seq(Ids)]
          /\ n.stored \in [Ids -> Version \cup {Nothing}]
          /\ n.index \in [MergeKeys -> Ids \cup {0}]
      BY <2>1, BoxParts
    <3>4. n.queued = s.queued /\ n.retained = s.retained
      BY <2>1
    <3>2. /\ box'.ready \in [urgent : Seq(Ids), low : Seq(Ids)]
          /\ box'.stored \in [Ids -> Version \cup {Nothing}]
          /\ box'.index \in [MergeKeys -> Ids \cup {0}]
      BY <2>2, <3>1
    <3>3. box'.queued \in SUBSET Ids /\ box'.retained \in [Ids -> Version \cup {Nothing}]
      BY <2>2, <2>3, <2>4, <3>4
    <3> QED BY <2>2, <3>2, <3>3 DEF Boxes
  <2>6. Replaced(box'.retained, s.retained, id, Nothing)
    BY <1>8, <2>1, <2>2 DEF Replaced
  <2> QED BY <2>1, <2>2, <2>5, <2>6 DEF n
<1>10. Range(s.ready.urgent) = Range(box.ready.urgent)
  BY <1>6
<1>11. /\ BoxTold(box', C, O) /\ Depth(box') = Depth(s) + 1 /\ Fits(box')
       /\ Range(box'.ready.urgent) = Range(s.ready.urgent) \cup (IF id \in C THEN {id} ELSE {})
       /\ Range(box'.ready.low) = Range(s.ready.low) \cup (IF id \in C THEN {} ELSE {id})
  <2>1. Entered(box', s, id, v, C, O)
    BY <1>1, <1>3, <1>6, <1>9, <1>10, EnterKeeps
  <2> QED BY <1>6, <2>1 DEF Entered
<1>12. Elsewhere(box', s, id, C)
  BY <1>9, <1>11 DEF Elsewhere, PendingIn, Replaced
<1>13. Elsewhere(box', box, id, C)
  BY <1>6, <1>12, ElsewhereTwice
<1>14. Depth(box') <= MaxSize
  <2>1. Room(s) = MaxSize - Depth(s) /\ Depth(s) \in Nat
    BY <1>6, BoxParts
  <2> QED BY <1>11, <2>1, SizesAssumption
<1>15. id \in O => box'.stored[id] # Nothing /\ PendingIn(box', id)
  <2> SUFFICES ASSUME id \in O
               PROVE  box'.stored[id] # Nothing /\ PendingIn(box', id)
    OBVIOUS
  <2>1. id \in C
    BY <1>1
  <2>2. box'.stored[id] = v
    BY <1>6, <1>9, <2>1
  <2>3. id \in Range(box'.ready.urgent)
    BY <1>11, <2>1
  <2> QED BY <1>3, <2>2, <2>3, NotNothing DEF PendingIn
<1>16. outcome' \in [Ids -> {"none", "open", "written", "dead", "filtered", "counted"}]
  BY DEF OutboxInv, OutboxTypeOK
<1>17. /\ CriticalIds' = CriticalIds /\ OpenIds' = OpenIds
       /\ BoxTold(box', CriticalIds, OpenIds') /\ Elsewhere(box', box, id, CriticalIds)
       /\ id \in OpenIds' => box'.stored[id] # Nothing /\ PendingIn(box', id)
  BY <1>2, <1>11, <1>13, <1>15 DEF C, O
<1> QED BY <1>4, <1>11, <1>14, <1>16, <1>17, SettledKeeps

\* There is no room: the event is retained while the worker waits with it.
LEMMA RetryWaitsKeeps ==
  ASSUME OutboxInv, NEW e, Settling(e), NEW old, NEW v, Again(v, old, e),
         e.id \notin box.queued, box' = StoreRetained(box, e.id, v),
         batch' = <<[id |-> e.id, what |-> old.what, tries |-> old.tries + 1]>> \o Tail(batch),
         pc' = "retrying", UNCHANGED <<puts, written, seen, outcome>>
  PROVE  OutboxInv'
<1> DEFINE C == CriticalIds
           O == OpenIds
           id == e.id
           again == [id |-> e.id, what |-> old.what, tries |-> old.tries + 1]
<1>1. /\ C \in SUBSET Ids /\ O \in SUBSET C /\ box \in Boxes
      /\ BoxTold(box, C, O) /\ Fits(box) /\ Depth(box) <= MaxSize /\ puts \in Int
      /\ HandSound(box, batch, pc, C, O, puts) /\ FreshTold(box, C, puts)
      /\ Len(batch) <= BatchSize
  BY InvGives
<1>2. CriticalIds' = C /\ OpenIds' = O
  BY SameOutcome
<1>3. /\ id \in Ids /\ v \in Version /\ (Critical(v) <=> id \in C)
      /\ id \in C => id \in O /\ id \notin Range(box.ready.urgent)
      /\ box.stored[id] # Nothing => KeyOf[box.stored[id].what] = KeyOf[v.what]
      /\ old \in Version /\ v.what = old.what /\ v.tries = old.tries + 1
  BY DEF Again
<1>4. again.id = id /\ again.what = v.what /\ again.tries = v.tries /\ again \in Entry
  BY <1>3 DEF Entry, Version
<1>5. /\ pc = "settle" /\ box' = StoreRetained(box, id, v) /\ id \notin box.queued
      /\ batch' = <<again>> \o Tail(batch)
  BY DEF Settling
<1>6. /\ id = batch[1].id /\ id <= puts
      /\ Tail(batch) \in Seq(Entry) /\ Len(batch) \in Nat \ {0}
      /\ Len(Tail(batch)) = Len(batch) - 1
      /\ DOMAIN batch = 1 .. Len(batch)
      /\ \A i \in 1 .. Len(batch) - 1 : Tail(batch)[i] = batch[i + 1]
  BY HeadTold DEF EntryTold, Settling
<1> HIDE DEF C, O, id, again
<1> DEFINE hand == <<again>> \o Tail(batch)
<1>7. /\ hand \in Seq(Entry) /\ Len(hand) = Len(batch) /\ DOMAIN hand = 1 .. Len(batch)
      /\ hand[1] = again /\ \A i \in 2 .. Len(batch) : hand[i] = batch[i]
  <2> DEFINE rest == Tail(batch)
  <2>1. rest \in Seq(Entry) /\ Len(rest) = Len(batch) - 1
        /\ \A i \in 1 .. Len(batch) - 1 : rest[i] = batch[i + 1]
    BY <1>6
  <2> HIDE DEF rest
  <2>2. /\ <<again>> \o rest \in Seq(Entry) /\ Len(<<again>> \o rest) = Len(rest) + 1
        /\ DOMAIN (<<again>> \o rest) = 1 .. Len(rest) + 1
        /\ (<<again>> \o rest)[1] = again
        /\ \A i \in 1 .. Len(rest) : (<<again>> \o rest)[i + 1] = rest[i]
    BY <1>4, <2>1, InFront
  <2>3. hand = <<again>> \o rest
    BY DEF rest
  <2> HIDE DEF hand
  <2>6. Len(rest) + 1 = Len(batch)
    BY <1>6, <2>1
  <2>4. hand \in Seq(Entry) /\ Len(hand) = Len(batch) /\ DOMAIN hand = 1 .. Len(batch) /\ hand[1] = again
    BY <2>2, <2>3, <2>6
  <2>5. ASSUME NEW i \in 2 .. Len(batch)
        PROVE  hand[i] = batch[i]
    <3>1. i - 1 \in 1 .. Len(batch) - 1 /\ (i - 1) + 1 = i /\ i - 1 \in 1 .. Len(rest)
      BY <1>6, <2>1
    <3>2. hand[(i - 1) + 1] = rest[i - 1] /\ rest[i - 1] = batch[(i - 1) + 1]
      BY <2>1, <2>2, <2>3, <3>1
    <3> QED BY <3>1, <3>2
  <2> QED BY <2>4, <2>5
<1>8. batch' = hand
  BY <1>5
<1> HIDE DEF hand
<1>9. RetainedAs(box', box, id, v, C, O)
  BY <1>1, <1>3, <1>5, RetainedAgain
<1>10. /\ BoxTold(box', C, O) /\ Fits(box') /\ box'.ready = box.ready /\ box'.queued = box.queued
       /\ Depth(box') = Depth(box) /\ Elsewhere(box', box, id, C) /\ box' \in Boxes
       /\ \/ box'.stored[id] = v /\ box'.retained[id] = v
          \/ id \notin C /\ box'.stored[id] = Nothing /\ box'.retained[id] = Nothing
  BY <1>9 DEF RetainedAs, BoxTold
<1>11. \A i \in DOMAIN hand : /\ i \in DOMAIN batch /\ hand[i].id = batch[i].id
                              /\ i # 1 => hand[i] = batch[i] /\ batch[i].id # id
  <2>1. ASSUME NEW i \in DOMAIN hand, i # 1
        PROVE  /\ i \in DOMAIN batch /\ 1 \in DOMAIN batch /\ hand[i] = batch[i]
               /\ batch[i].id # id
    <3>1. i \in 2 .. Len(batch) /\ i \in DOMAIN batch /\ 1 \in DOMAIN batch
      BY <1>6, <1>7, <2>1
    <3> QED BY <1>1, <1>5, <1>6, <1>7, <2>1, <3>1 DEF HandSound, HandOnce, Final
  <2>2. 1 \in DOMAIN batch /\ hand[1].id = batch[1].id
    BY <1>4, <1>6, <1>7
  <2> QED BY <2>1, <2>2
<1>12. HandTold(box', hand, C, O, puts)
  <2> SUFFICES ASSUME NEW i \in DOMAIN hand
               PROVE  EntryTold(box', hand[i], C, O, puts)
    BY DEF HandTold
  <2>1. CASE i = 1
    <3>1. hand[i] = again /\ (Critical(again) <=> id \in C)
      BY <1>3, <1>4, <1>7, <2>1 DEF Critical
    <3>2. EntryTold(box', again, C, O, puts)
      <4>1. again.id = id /\ again.tries = v.tries /\ KeyOf[again.what] = KeyOf[v.what] /\ v # Nothing
        BY <1>3, <1>4, NotNothing
      <4>2. id \in C => id \in O /\ id \notin Range(box'.ready.urgent)
        BY <1>3, <1>10
      <4>3. box'.stored[id] # Nothing => box'.stored[id] = v
        BY <1>10
      <4>4. box'.stored[id] = Nothing => box'.retained[id] = Nothing
        BY <1>10, <4>1
      <4>5. again.id <= puts /\ (Critical(again) <=> again.id \in C)
        BY <1>6, <3>1, <4>1
      <4>6. again.id \in C => again.id \in O /\ again.id \notin Range(box'.ready.urgent)
        BY <4>1, <4>2
      <4>7. box'.stored[again.id] # Nothing => /\ box'.stored[again.id].tries = again.tries
                                               /\ KeyOf[box'.stored[again.id].what] = KeyOf[again.what]
        BY <4>1, <4>3
      <4>8. box'.stored[again.id] = Nothing => box'.retained[again.id] = Nothing
        BY <4>1, <4>4
      <4> QED BY <4>5, <4>6, <4>7, <4>8 DEF EntryTold
    <3> QED BY <3>1, <3>2
  <2>2. CASE i # 1
    <3>1. i \in DOMAIN batch /\ hand[i] = batch[i] /\ batch[i].id # id
      BY <1>11, <2>2
    <3>2. EntryTold(box, batch[i], C, O, puts) /\ batch[i] \in Entry
      BY <1>1, <3>1, InvGives, InHandAre DEF HandSound, HandTold
    <3>3. /\ puts <= puts
          /\ batch[i].id \in C => batch[i].id \notin Range(box'.ready.urgent)
      BY <1>1, <1>10, <3>2 DEF EntryTold
    <3>4. EntryTold(box', batch[i], C, O, puts)
      BY <1>1, <1>10, <3>1, <3>2, <3>3, EntryStays
    <3> QED BY <3>1, <3>4
  <2> QED BY <2>1, <2>2
<1>13. RetainedTold(box', hand, "retrying", C)
  <2>1. ASSUME NEW i \in DOMAIN hand, hand[i].id \in C, i # 1
        PROVE  box'.retained[hand[i].id] = Nothing
    <3>1. /\ i \in DOMAIN batch /\ hand[i] = batch[i] /\ batch[i].id # id /\ batch[i].id \in Ids
          /\ batch[i].id \in C
      BY <1>11, <2>1, InvGives, InHandAre
    <3>2. box.retained[batch[i].id] = Nothing
      BY <1>1, <1>5, <3>1 DEF HandSound, RetainedTold
    <3> QED BY <1>10, <3>1, <3>2 DEF Elsewhere
  <2>2. hand[1].id \notin box'.queued
    BY <1>4, <1>5, <1>7, <1>10
  <2> QED BY <2>1, <2>2 DEF RetainedTold
<1>14. HandOnce(hand, "retrying", C) /\ CriticalFirst(hand, "retrying", C)
  BY <1>1, <1>5, <1>11 DEF HandSound, HandOnce, CriticalFirst, Final
<1>15. PcTold(hand, "retrying")
  <2>1. hand # <<>>
    BY <1>6, <1>7, EmptySeq
  <2> QED BY <2>1 DEF PcTold
<1>16. Kept(box', hand, O)
  <2> SUFFICES ASSUME NEW x \in O
               PROVE  /\ box'.stored[x] # Nothing
                      /\ PendingIn(box', x) \/ \E i \in DOMAIN hand : hand[i].id = x
    BY DEF Kept
  <2>1. x \in Ids /\ x \in C
    BY <1>1
  <2>2. CASE x = id
    <3>1. box'.stored[x] = v /\ box'.retained[x] = v
      BY <1>10, <2>1, <2>2
    <3> QED BY <1>3, <3>1, NotNothing DEF PendingIn
  <2>3. CASE x # id
    <3>1. box.stored[x] # Nothing /\ (PendingIn(box, x) \/ \E i \in DOMAIN batch : batch[i].id = x)
      BY <1>1 DEF HandSound, Kept
    <3>2. box'.stored[x] # Nothing /\ (PendingIn(box, x) => PendingIn(box', x))
      BY <1>10, <2>1, <2>3, <3>1 DEF Elsewhere
    <3>3. \A i \in DOMAIN batch : i \in DOMAIN hand /\ hand[i].id = batch[i].id
      BY <1>6, <1>7, <1>11
    <3> QED BY <3>1, <3>2, <3>3
  <2> QED BY <2>2, <2>3
<1>17. FreshTold(box', C, puts)
  <2>1. C \subseteq C \cup {id} /\ puts <= puts /\ id \in Int
    BY <1>1, <1>3, IdsAre
  <2> QED BY <1>1, <1>6, <1>10, <2>1, FreshStays
<1>18. OutboxTypeOK'
  BY <1>1, <1>7, <1>8, <1>10 DEF OutboxInv, OutboxTypeOK
<1> QED BY <1>2, <1>8, <1>10, <1>12, <1>13, <1>14, <1>15, <1>16, <1>17, <1>18
        DEF OutboxInv, Told, HandSound

\* retry: the event is stored anew, and queued or waiting to be.
LEMMA RetryKeeps ==
  ASSUME OutboxInv, NEW e, Retry(e)
  PROVE  OutboxInv'
<1> DEFINE old == Current(box, e.id)
           v == [old EXCEPT !.tries = @ + 1]
           s == StoreRetained(box, e.id, v)
<1>1. /\ Settling(e) /\ e.tries < MaxRetries /\ old # Nothing
      /\ UNCHANGED <<puts, seen, outcome>>
  BY DEF Retry
<1>2. Again(v, old, e)
  BY <1>1, RetriedIs
<1>3. CASE e.id \in box.queued
  <2>1. box' = StorePending(box, e.id, v) /\ GoOn
    BY <1>3 DEF Retry
  <2> HIDE DEF old, v, s
  <2> QED BY <1>1, <1>2, <1>3, <2>1, RetryQueuedKeeps
<1>4. CASE e.id \notin box.queued /\ Room(s) > 0
  <2>1. box' = Requeued(s, e.id, v) /\ GoOn
    BY <1>4 DEF Retry, Requeued
  <2>2. s = StoreRetained(box, e.id, v)
    OBVIOUS
  <2> HIDE DEF old, v, s
  <2> QED BY <1>1, <1>2, <1>4, <2>1, <2>2, RetryEntersKeeps
<1>5. CASE e.id \notin box.queued /\ ~ (Room(s) > 0)
  <2>1. /\ box' = StoreRetained(box, e.id, v) /\ pc' = "retrying" /\ UNCHANGED written
        /\ batch' = <<[id |-> e.id, what |-> old.what, tries |-> old.tries + 1]>> \o Tail(batch)
    BY <1>5 DEF Retry
  <2> HIDE DEF old, v, s
  <2> QED BY <1>1, <1>2, <1>5, <2>1, RetryWaitsKeeps
<1> QED BY <1>3, <1>4, <1>5

----------------------------------------------------------------------------
(* Putting events. *)

\* The operation is about one event only, and leaves the worker's hands alone.
LEMMA PutDone ==
  ASSUME OutboxInv, UNCHANGED <<pc, batch, written, seen>>, puts < MaxPuts, puts' = puts + 1,
         outcome' \in [Ids -> {"none", "open", "written", "dead", "filtered", "counted"}],
         NEW id \in Ids, id <= puts + 1, Elsewhere(box', box, id, CriticalIds),
         \A x \in Ids : x # id => /\ x \in CriticalIds <=> x \in CriticalIds'
                                  /\ x \in OpenIds <=> x \in OpenIds',
         BoxTold(box', CriticalIds', OpenIds'), Fits(box'), Depth(box') <= MaxSize,
         box'.queued = box.queued, Range(box'.ready.urgent) \subseteq Range(box.ready.urgent) \cup {id},
         \A i \in DOMAIN batch : batch[i].id = id =>
           /\ id \notin CriticalIds \cup CriticalIds'
           /\ EntryTold(box', batch[i], CriticalIds', OpenIds', puts + 1),
         id \in OpenIds' => box'.stored[id] # Nothing /\ PendingIn(box', id)
  PROVE  OutboxInv'
<1> DEFINE C == CriticalIds
           O == OpenIds
           D == CriticalIds'
           P == OpenIds'
           m == puts + 1
<1>1. /\ C \in SUBSET Ids /\ O \subseteq C /\ batch \in Seq(Entry) /\ puts \in Int
      /\ HandSound(box, batch, pc, C, O, puts) /\ FreshTold(box, C, puts) /\ puts \in 0 .. MaxPuts
  BY InvGives
<1>2. D \subseteq Ids /\ P \subseteq Ids
  BY DEF CriticalIds, OpenIds
<1>3. m \in Int /\ puts <= m /\ m \in 0 .. MaxPuts
  BY <1>1, SizesAssumption
<1>4. /\ Elsewhere(box', box, id, C) /\ id \in Int /\ id <= m
      /\ id \in P => box'.stored[id] # Nothing /\ PendingIn(box', id)
  BY IdsAre
<1>9. SameBut(id, C, D) /\ SameBut(id, O, P)
  BY DEF SameBut
<1>10. ToldOf(id, box', batch, C \cup D, D, P, m)
  BY DEF ToldOf
<1>5. D \subseteq C \cup {id}
  BY <1>2, <1>9 DEF SameBut
<1>6. OutboxTypeOK'
  <2>1. box' \in Boxes
    BY DEF BoxTold
  <2> QED BY <1>3, <2>1 DEF OutboxInv, OutboxTypeOK
<1> HIDE DEF C, O, D, P, m
<1>7. HandSound(box', batch, pc, D, P, m)
  BY <1>1, <1>2, <1>3, <1>4, <1>9, <1>10, SameHand
<1>8. FreshTold(box', D, m)
  BY <1>1, <1>3, <1>4, <1>5, FreshStays
<1> QED BY <1>6, <1>7, <1>8 DEF OutboxInv, Told, D, P, m

\* A later event takes the place of one stored under the same key.
LEMMA PutMergedKeeps ==
  ASSUME OutboxInv, NEW c \in Contents, PutMerged(c), UNCHANGED <<pc, batch, written, seen>>,
         puts < MaxPuts, puts' = puts + 1
  PROVE  OutboxInv'
<1> DEFINE C == CriticalIds
           O == OpenIds
           id == MergeTarget(c)
           old == box.stored[id]
           v == [what |-> c, tries |-> Current(box, id).tries]
<1>1. /\ C \in SUBSET Ids /\ O \in SUBSET C /\ box \in Boxes /\ batch \in Seq(Entry)
      /\ BoxTold(box, C, O) /\ Fits(box) /\ Depth(box) <= MaxSize /\ puts \in Int
      /\ HandSound(box, batch, pc, C, O, puts) /\ FreshTold(box, C, puts)
  BY InvGives
<1>2. /\ id # 0 /\ outcome' = outcome
      /\ box' = IF id \in box.queued THEN StorePending(box, id, v) ELSE StoreRetained(box, id, v)
  BY DEF PutMerged
<1>3. /\ KeyOf[c] \in MergeKeys /\ id = box.index[KeyOf[c]] /\ id \in Ids
  <2>1. KeyOf[c] # NoKey /\ id = box.index[KeyOf[c]]
    BY <1>2 DEF MergeTarget
  <2>2. KeyOf[c] \in MergeKeys
    BY <2>1, ContentsAssumption
  <2>3. box.index \in [MergeKeys -> Ids \cup {0}]
    BY <1>1, BoxParts
  <2> HIDE DEF id
  <2> QED BY <1>2, <2>1, <2>2, <2>3
<1> HIDE DEF id
<1>4. old # Nothing /\ KeyOf[old.what] = KeyOf[c]
  BY <1>1, <1>2, <1>3 DEF BoxTold, IndexTold
<1>5. old \in Version /\ v.tries = old.tries /\ v.what = c /\ v \in Version
  <2>1. box.stored \in [Ids -> Version \cup {Nothing}]
    BY <1>1, BoxParts
  <2>2. old \in Version
    BY <1>3, <1>4, <2>1
  <2>3. Current(box, id) = old
    BY <1>4 DEF Current
  <2> QED BY <2>2, <2>3 DEF Version
<1> HIDE DEF v
<1>6. ~ Critical(v) /\ id \notin C
  <2>1. KeyOf[c] # NoKey
    BY <1>3, ContentsAssumption
  <2>2. ~ Critical(old)
    BY <1>4, <2>1 DEF Critical
  <2> QED BY <1>1, <1>3, <1>4, <1>5, <2>1, <2>2 DEF BoxTold, KindsTold, Critical
<1>7. id <= puts /\ id <= puts + 1
  <2>1. ~ (id > puts) /\ id \in Int
    BY <1>1, <1>3, <1>4, IdsAre DEF FreshTold
  <2> QED BY <1>1, <2>1
<1>8. box.stored[id] # Nothing => KeyOf[box.stored[id].what] = KeyOf[v.what]
  BY <1>4, <1>5
<1>9. CriticalIds' = C /\ OpenIds' = O
  BY <1>2, SameOutcome
<1> HIDE DEF C, O, old
<1>10. /\ BoxTold(box', C, O) /\ Fits(box') /\ Depth(box') = Depth(box)
       /\ box'.ready = box.ready /\ box'.queued = box.queued /\ Elsewhere(box', box, id, C)
       /\ \/ box'.stored[id] = v
          \/ box'.stored[id] = Nothing /\ box'.retained[id] = Nothing
  <2>1. CASE id \in box.queued
    <3>1. box' = StorePending(box, id, v)
      BY <1>2, <2>1
    <3>2. StoredAnew(box', box, id, v, C, O)
      BY <1>1, <1>3, <1>5, <1>6, <1>8, <3>1, StoredAgain
    <3> QED BY <1>1, <1>3, <3>2 DEF StoredAnew, StoredAs, Replaced
  <2>2. CASE id \notin box.queued
    <3>1. box' = StoreRetained(box, id, v)
      BY <1>2, <2>2
    <3>2. RetainedAs(box', box, id, v, C, O)
      BY <1>1, <1>3, <1>5, <1>6, <1>8, <2>2, <3>1, RetainedAgain
    <3> QED BY <3>2 DEF RetainedAs
  <2> QED BY <2>1, <2>2
<1>11. ASSUME NEW i \in DOMAIN batch, batch[i].id = id
       PROVE  EntryTold(box', batch[i], C, O, puts + 1)
  <2>1. EntryTold(box, batch[i], C, O, puts)
    BY <1>1 DEF HandSound, HandTold
  <2>2. /\ old.tries = batch[i].tries /\ KeyOf[old.what] = KeyOf[batch[i].what]
        /\ Critical(batch[i]) <=> batch[i].id \in C
    BY <1>4, <1>11, <2>1 DEF EntryTold, old
  <2>3. box'.stored[id] # Nothing => /\ box'.stored[id].tries = batch[i].tries
                                     /\ KeyOf[box'.stored[id].what] = KeyOf[batch[i].what]
    BY <1>4, <1>5, <1>10, <2>2
  <2>4. box'.stored[id] = Nothing => box'.retained[id] = Nothing
    BY <1>5, <1>10, NotNothing
  <2> QED BY <1>6, <1>7, <1>11, <2>2, <2>3, <2>4 DEF EntryTold
<1>12. outcome' \in [Ids -> {"none", "open", "written", "dead", "filtered", "counted"}]
  BY <1>2 DEF OutboxInv, OutboxTypeOK
<1>13. /\ CriticalIds' = CriticalIds /\ OpenIds' = OpenIds /\ id \notin CriticalIds
       /\ id \notin OpenIds' /\ Depth(box') <= MaxSize
       /\ BoxTold(box', CriticalIds', OpenIds') /\ Elsewhere(box', box, id, CriticalIds)
       /\ \A i \in DOMAIN batch : batch[i].id = id =>
            EntryTold(box', batch[i], CriticalIds', OpenIds', puts + 1)
       /\ Range(box'.ready.urgent) \subseteq Range(box.ready.urgent) \cup {id}
  BY <1>1, <1>6, <1>9, <1>10, <1>11 DEF C, O
<1> QED BY <1>3, <1>7, <1>10, <1>12, <1>13, PutDone

\* What happens elsewhere depends only on which of the others are critical.
LEMMA ElsewhereOther ==
  ASSUME NEW b, NEW c, NEW id, NEW D, Elsewhere(c, b, id, D), NEW C,
         \A x \in Ids : x # id => (x \in C <=> x \in D)
  PROVE  Elsewhere(c, b, id, C)
<1> SUFFICES ASSUME NEW x \in Ids, x # id
             PROVE  /\ c.stored[x] = b.stored[x]
                         \/ (x \notin C /\ c.stored[x] = Nothing /\ c.retained[x] = Nothing)
                    /\ c.retained[x] = b.retained[x] \/ c.retained[x] = Nothing
                    /\ x \in Range(c.ready.urgent) =>
                         x \in Range(b.ready.urgent) \/ b.retained[x] # Nothing
                    /\ x \in c.queued \cup Range(c.ready.low) =>
                         x \in b.queued \cup Range(b.ready.low) \/ b.retained[x] # Nothing
                    /\ x \in C /\ PendingIn(b, x) => PendingIn(c, x)
  BY DEF Elsewhere
<1> QED BY DEF Elsewhere

\* A new event enters the ready queue, or is retained.
LEMMA PutNewKeeps ==
  ASSUME OutboxInv, NEW c \in Contents, PutNew(c), UNCHANGED <<pc, batch, written, seen>>,
         puts < MaxPuts, puts' = puts + 1
  PROVE  OutboxInv'
<1> DEFINE C == CriticalIds
           O == OpenIds
           D == CriticalIds'
           P == OpenIds'
           id == puts + 1
           e == [what |-> c, tries |-> 0]
<1>1. /\ C \in SUBSET Ids /\ O \in SUBSET C /\ box \in Boxes /\ batch \in Seq(Entry)
      /\ BoxTold(box, C, O) /\ Fits(box) /\ Depth(box) <= MaxSize /\ puts \in Int
      /\ HandSound(box, batch, pc, C, O, puts) /\ FreshTold(box, C, puts) /\ puts \in 0 .. MaxPuts
  BY InvGives
<1>2. /\ box' = IF Room(box) > 0 THEN StorePending(Enter(box, id, e), id, e)
                                 ELSE StoreRetained(box, id, e)
      /\ outcome' = IF Critical(e) THEN [outcome EXCEPT ![id] = "open"] ELSE outcome
  BY DEF PutNew
<1>3. id \in Ids /\ id \in Int /\ id > puts /\ id <= puts + 1
  BY <1>1, SizesAssumption DEF Ids
<1>4. e \in Version
  BY SizesAssumption DEF Version
<1> HIDE DEF id, e
<1>5. /\ id \notin C /\ box.stored[id] = Nothing /\ box.retained[id] = Nothing
      /\ id \notin box.queued /\ id \notin Range(box.ready.urgent) /\ id \notin Range(box.ready.low)
  BY <1>1, <1>3 DEF FreshTold
<1>6. /\ D = IF Critical(e) THEN C \cup {id} ELSE C
      /\ P = IF Critical(e) THEN O \cup {id} ELSE O
      /\ outcome' \in [Ids -> {"none", "open", "written", "dead", "filtered", "counted"}]
  <2>1. outcome \in [Ids -> {"none", "open", "written", "dead", "filtered", "counted"}]
    BY DEF OutboxInv, OutboxTypeOK
  <2>2. CASE Critical(e)
    <3>1. outcome' = [outcome EXCEPT ![id] = "open"]
      BY <1>2, <2>2
    <3>2. \A x \in Ids : outcome'[x] = IF x = id THEN "open" ELSE outcome[x]
      BY <2>1, <3>1
    <3> QED BY <1>3, <2>1, <2>2, <3>1, <3>2 DEF CriticalIds, OpenIds
  <2>3. CASE ~ Critical(e)
    <3>1. outcome' = outcome
      BY <1>2, <2>3
    <3> QED BY <2>1, <2>3, <3>1, SameOutcome
  <2> QED BY <2>2, <2>3
<1> HIDE DEF C, O, D, P
<1>7. /\ D \in SUBSET Ids /\ P \in SUBSET D
      /\ Critical(e) <=> id \in D
      /\ id \in D => id \in P /\ id \notin Range(box.ready.urgent)
      /\ \A x \in Ids : x # id => (x \in C <=> x \in D) /\ (x \in O <=> x \in P)
  BY <1>1, <1>3, <1>5, <1>6
<1>8. BoxTold(box, D, P)
  <2>1. KindsTold(box, D)
    BY <1>1, <1>5, <1>7 DEF BoxTold, KindsTold
  <2>2. LanesTold(box, D, P)
    BY <1>1, <1>5, <1>6 DEF BoxTold, LanesTold
  <2>3. OnePlace(box, D, P)
    BY <1>1, <1>5, <1>6 DEF BoxTold, OnePlace
  <2> QED BY <1>1, <2>1, <2>2, <2>3 DEF BoxTold
<1>9. /\ BoxTold(box', D, P) /\ Fits(box') /\ Depth(box') <= MaxSize /\ box'.queued = box.queued
      /\ Elsewhere(box', box, id, D)
      /\ Range(box'.ready.urgent) \subseteq Range(box.ready.urgent) \cup {id}
      /\ id \in D => box'.stored[id] # Nothing /\ PendingIn(box', id)
  <2>1. CASE Room(box) > 0
    <3> DEFINE b == Enter(box, id, e)
    <3>1. box' = StorePending(b, id, e)
      BY <1>2, <2>1
    <3>2. /\ b \in Boxes /\ b.stored = box.stored /\ b.retained = box.retained
          /\ b.queued = box.queued /\ b.index = box.index
      BY <1>1, <1>3, EnterAdds
    <3>3. Replaced(b.retained, box.retained, id, Nothing)
      BY <1>5, <3>2 DEF Replaced
    <3>4. b.ready = Enter(box, id, e).ready
      OBVIOUS
    <3> HIDE DEF b
    <3>5. Entered(b, box, id, e, D, P)
      BY <1>3, <1>7, <1>8, <3>2, <3>3, <3>4, EnterKeeps
    <3>6. /\ BoxTold(b, D, P) /\ Fits(b) /\ Depth(b) = Depth(box) + 1
          /\ Range(b.ready.urgent) = Range(box.ready.urgent) \cup (IF id \in D THEN {id} ELSE {})
          /\ Range(b.ready.low) = Range(box.ready.low) \cup (IF id \in D THEN {} ELSE {id})
      BY <1>1, <3>5 DEF Entered
    <3>7. Elsewhere(b, box, id, D)
      BY <3>2, <3>6 DEF Elsewhere, PendingIn
    <3>8. StoredAnew(box', b, id, e, D, P)
      BY <1>3, <1>4, <1>5, <1>7, <3>1, <3>2, <3>6, StoredAgain
    <3>9. /\ BoxTold(box', D, P) /\ Fits(box') /\ Depth(box') = Depth(b) /\ box'.ready = b.ready
          /\ box'.queued = b.queued /\ Elsewhere(box', b, id, D) /\ box'.stored[id] = e
      BY <1>3, <3>6, <3>8 DEF StoredAnew, StoredAs, Replaced
    <3>10. Elsewhere(box', box, id, D)
      BY <3>7, <3>9, ElsewhereTwice
    <3>11. Depth(box') <= MaxSize
      <4>1. Room(box) = MaxSize - Depth(box) /\ Depth(box) \in Nat
        BY <1>1, BoxParts
      <4> QED BY <2>1, <3>6, <3>9, <4>1, SizesAssumption
    <3>12. id \in D => box'.stored[id] # Nothing /\ PendingIn(box', id)
      BY <1>4, <3>6, <3>9, NotNothing DEF PendingIn
    <3> QED BY <3>2, <3>6, <3>9, <3>10, <3>11, <3>12
  <2>2. CASE ~ (Room(box) > 0)
    <3>1. box' = StoreRetained(box, id, e)
      BY <1>2, <2>2
    <3>2. RetainedAs(box', box, id, e, D, P)
      BY <1>3, <1>4, <1>5, <1>7, <1>8, <3>1, RetainedAgain
    <3>3. /\ BoxTold(box', D, P) /\ Fits(box') /\ Depth(box') = Depth(box)
          /\ box'.ready = box.ready /\ box'.queued = box.queued /\ Elsewhere(box', box, id, D)
          /\ id \in D => box'.stored[id] = e /\ box'.retained[id] = e
      BY <3>2 DEF RetainedAs
    <3> QED BY <1>1, <1>4, <3>3, NotNothing DEF PendingIn
  <2> QED BY <2>1, <2>2
<1>10. Elsewhere(box', box, id, C)
  BY <1>7, <1>9, ElsewhereOther
<1>11. \A i \in DOMAIN batch : batch[i].id # id
  <2> SUFFICES ASSUME NEW i \in DOMAIN batch
               PROVE  batch[i].id # id
    OBVIOUS
  <2>1. EntryTold(box, batch[i], C, O, puts)
    BY <1>1 DEF HandSound, HandTold
  <2>2. batch[i].id \in Int
    BY <1>1, InHandAre, IdsAre
  <2> QED BY <1>1, <1>3, <2>1, <2>2 DEF EntryTold
<1>12. id \in P => box'.stored[id] # Nothing /\ PendingIn(box', id)
  BY <1>7, <1>9
<1>13. /\ Elsewhere(box', box, id, CriticalIds) /\ BoxTold(box', CriticalIds', OpenIds')
       /\ \A x \in Ids : x # id => /\ x \in CriticalIds <=> x \in CriticalIds'
                                   /\ x \in OpenIds <=> x \in OpenIds'
       /\ id \in OpenIds' => box'.stored[id] # Nothing /\ PendingIn(box', id)
  BY <1>7, <1>9, <1>10, <1>12 DEF C, O, D, P
<1> QED BY <1>3, <1>6, <1>9, <1>11, <1>13, PutDone

\* put_nowait, whichever way it goes.
LEMMA PutNowaitKeeps ==
  ASSUME OutboxInv, NEW c \in Contents, PutNowait(c)
  PROVE  OutboxInv'
<1>1. /\ puts < MaxPuts /\ puts' = puts + 1 /\ UNCHANGED <<pc, batch, written, seen>>
      /\ PutMerged(c) \/ PutNew(c)
  BY DEF PutNowait
<1>2. CASE PutMerged(c)
  BY <1>1, <1>2, PutMergedKeeps
<1>3. CASE PutNew(c)
  BY <1>1, <1>3, PutNewKeeps
<1> QED BY <1>1, <1>2, <1>3

----------------------------------------------------------------------------
(* Classifying a batch. *)

\* A function on the first numbers is a sequence.
LEMMA IsSequence ==
  ASSUME NEW S, NEW n \in Nat, NEW f \in [1 .. n -> S]
  PROVE  f \in Seq(S) /\ Len(f) = n /\ DOMAIN f = 1 .. n
OBVIOUS

\* Entries of the batch in their order.
LEMMA AsTheyCameIs ==
  ASSUME batch \in Seq(Entry), NEW S \in SUBSET DOMAIN batch, NEW r, r = AsTheyCame(S)
  PROVE  /\ r \in Seq(Entry) /\ Len(r) = Cardinality(S) /\ Cardinality(S) \in Nat
         /\ DOMAIN r = 1 .. Cardinality(S)
         /\ \A n \in DOMAIN r : \E i \in S : r[n] = batch[i]
         /\ \A i \in S : \E n \in DOMAIN r : r[n] = batch[i]
         /\ \A n, m \in DOMAIN r : n # m => \E i, j \in S : i # j /\ r[n] = batch[i] /\ r[m] = batch[j]
<1> DEFINE at == Aged(S)
           N == Cardinality(S)
<1>1. S \in SUBSET Nat /\ IsFiniteSet(S)
  <2>1. DOMAIN batch = 1 .. Len(batch) /\ Len(batch) \in Nat
    BY LenProperties
  <2>2. IsFiniteSet(1 .. Len(batch))
    BY <2>1, FS_Interval
  <2> QED BY <2>1, <2>2, FS_Subset
<1>2. /\ at \in Seq(S) /\ Len(at) = N /\ N \in Nat /\ DOMAIN at = 1 .. N
      /\ Range(at) = S /\ IsInjective(at)
  BY <1>1, AgedIs
<1>3. r = [n \in DOMAIN at |-> batch[at[n]]]
  BY DEF AsTheyCame
<1> HIDE DEF at, N
<1>4. \A n \in 1 .. N : at[n] \in S /\ r[n] = batch[at[n]] /\ batch[at[n]] \in Entry
  BY <1>2, <1>3, InHandAre DEF Range
<1>5. r \in [1 .. N -> Entry]
  BY <1>2, <1>3, <1>4
<1>6. r \in Seq(Entry) /\ Len(r) = N /\ DOMAIN r = 1 .. N
  BY <1>2, <1>5, IsSequence
<1>7. \A i \in S : \E n \in DOMAIN r : r[n] = batch[i]
  BY <1>2, <1>4, <1>6 DEF Range
<1>8. \A n, m \in DOMAIN r : n # m => \E i, j \in S : i # j /\ r[n] = batch[i] /\ r[m] = batch[j]
  BY <1>2, <1>4, <1>6 DEF IsInjective
<1> QED BY <1>2, <1>4, <1>6, <1>7, <1>8 DEF N

\* One entry for each of the events, none twice.
LEMMA ByAgeIs ==
  ASSUME batch \in Seq(Entry), NEW S \in SUBSET DOMAIN batch, NEW r, r = ByAge(S)
  PROVE  /\ r \in Seq(Entry) /\ Len(r) <= Cardinality(S) /\ Cardinality(S) \in Nat
         /\ \A n \in DOMAIN r : \E i \in S : r[n] = batch[i]
         /\ \A n, m \in DOMAIN r : n # m => r[n].id # r[m].id
<1> DEFINE T == {batch[i].id : i \in S}
           ids == Aged(T)
           N == Cardinality(T)
           pick == [n \in DOMAIN ids |-> CHOOSE i \in S : batch[i].id = ids[n]]
<1>1. IsFiniteSet(S)
  <2>1. DOMAIN batch = 1 .. Len(batch) /\ Len(batch) \in Nat
    BY LenProperties
  <2>2. IsFiniteSet(1 .. Len(batch))
    BY <2>1, FS_Interval
  <2> QED BY <2>1, <2>2, FS_Subset
<1>2. T \in SUBSET Ids
  BY InHandAre
<1>3. IsFiniteSet(T) /\ N <= Cardinality(S) /\ Cardinality(S) \in Nat /\ T \in SUBSET Nat
  <2> DEFINE f == [i \in S |-> batch[i].id]
  <2>1. f \in Surjection(S, T)
    BY DEF Surjection
  <2>2. IsFiniteSet(T) /\ Cardinality(T) <= Cardinality(S)
    BY <1>1, <2>1, FS_Surjection
  <2> QED BY <1>1, <1>2, <2>2, IdsAre, FS_CardinalityType
<1>4. r = [n \in DOMAIN ids |-> batch[CHOOSE i \in S : batch[i].id = ids[n]]]
  BY DEF ByAge
<1>5. /\ Len(ids) = N /\ N \in Nat /\ DOMAIN ids = 1 .. N /\ Range(ids) = T /\ IsInjective(ids)
  BY <1>3, AgedIs
<1>6. \A n \in DOMAIN ids : \E i \in S : batch[i].id = ids[n]
  BY <1>5 DEF Range
<1>7. \A n \in DOMAIN ids : pick[n] \in S /\ batch[pick[n]].id = ids[n] /\ r[n] = batch[pick[n]]
  BY <1>4, <1>6
<1>8. DOMAIN r = 1 .. N /\ r = [n \in 1 .. N |-> r[n]]
  BY <1>4, <1>5
<1> HIDE DEF pick, ids, N, T
<1>9. \A n \in 1 .. N : r[n] \in Entry
  BY <1>5, <1>7, InHandAre
<1>10. r \in [1 .. N -> Entry]
  BY <1>8, <1>9
<1>11. r \in Seq(Entry) /\ Len(r) = N
  BY <1>5, <1>10, IsSequence
<1>12. \A n, m \in DOMAIN r : n # m => r[n].id # r[m].id
  BY <1>5, <1>7, <1>8 DEF IsInjective
<1> QED BY <1>3, <1>5, <1>7, <1>8, <1>11, <1>12

\* Two sequences of entries put together.
Joined(z, x, y) ==
  /\ z \in Seq(Entry) /\ Len(z) = Len(x) + Len(y) /\ Len(x) \in Nat /\ Len(y) \in Nat
  /\ DOMAIN z = 1 .. Len(x) + Len(y) /\ DOMAIN x = 1 .. Len(x) /\ DOMAIN y = 1 .. Len(y)
  /\ \A n \in 1 .. Len(x) + Len(y) : z[n] = IF n <= Len(x) THEN x[n] ELSE y[n - Len(x)]

\* A concatenation is both, one after the other.
LEMMA JoinedIs ==
  ASSUME NEW x \in Seq(Entry), NEW y \in Seq(Entry)
  PROVE  Joined(x \o y, x, y)
<1>1. x \o y \in Seq(Entry) /\ Len(x \o y) = Len(x) + Len(y)
  BY ConcatProperties
<1>2. \A n \in 1 .. Len(x) + Len(y) : (x \o y)[n] = IF n <= Len(x) THEN x[n] ELSE y[n - Len(x)]
  BY ConcatProperties
<1>3. Len(x) \in Nat /\ Len(y) \in Nat /\ DOMAIN x = 1 .. Len(x) /\ DOMAIN y = 1 .. Len(y)
  BY LenProperties
<1>4. DOMAIN (x \o y) = 1 .. Len(x \o y)
  BY <1>1, LenProperties
<1> QED BY <1>1, <1>2, <1>3, <1>4 DEF Joined

\* What is settled comes of the coalesced entries, has every critical one of them, no event
\* twice and the critical ones first.
LEMMA SettleOrderIs ==
  ASSUME batch \in Seq(Entry), NEW C, \A i \in DOMAIN batch : Critical(batch[i]) <=> batch[i].id \in C,
         HandOnce(batch, pc, C), NEW r, r = SettleOrder
  PROVE  /\ r \in Seq(Entry) /\ Len(r) <= Len(batch) /\ Len(r) \in Nat
         /\ \A n \in DOMAIN r : \E i \in Coalesced : r[n] = batch[i]
         /\ \A i \in Coalesced : Critical(batch[i]) => \E n \in DOMAIN r : r[n] = batch[i]
         /\ \A n, m \in DOMAIN r : n # m => r[n].id # r[m].id
         /\ \A n, m \in DOMAIN r : n < m /\ r[m].id \in C => r[n].id \in C
<1> DEFINE U == {i \in Coalesced : Critical(batch[i])}
           L == Coalesced \ U
           s == AsTheyCame(U)
           t == ByAge(L)
<1>1. /\ Coalesced \in SUBSET DOMAIN batch /\ U \in SUBSET DOMAIN batch /\ L \in SUBSET DOMAIN batch
      /\ U \cap L = {} /\ U \cup L = Coalesced
  BY DEF Coalesced, Inserts, Sifted
<1>2. /\ \A i \in U : Critical(batch[i]) /\ batch[i].id \in C
      /\ \A i \in L : batch[i].id \notin C
  BY <1>1
<1>3. r = s \o t
  BY DEF SettleOrder
<1>12. \A i \in Coalesced : Critical(batch[i]) => i \in U
  OBVIOUS
<1> HIDE DEF U, L
<1>4. /\ s \in Seq(Entry) /\ Len(s) = Cardinality(U) /\ Cardinality(U) \in Nat
      /\ DOMAIN s = 1 .. Cardinality(U)
      /\ \A n \in DOMAIN s : \E i \in U : s[n] = batch[i]
      /\ \A i \in U : \E n \in DOMAIN s : s[n] = batch[i]
      /\ \A n, m \in DOMAIN s : n # m => \E i, j \in U : i # j /\ s[n] = batch[i] /\ s[m] = batch[j]
  BY <1>1, AsTheyCameIs
<1>5. /\ t \in Seq(Entry) /\ Len(t) <= Cardinality(L) /\ Cardinality(L) \in Nat
      /\ \A n \in DOMAIN t : \E i \in L : t[n] = batch[i]
      /\ \A n, m \in DOMAIN t : n # m => t[n].id # t[m].id
  BY <1>1, ByAgeIs
<1> HIDE DEF s, t
<1>6. /\ r \in Seq(Entry) /\ Len(r) = Len(s) + Len(t) /\ Len(t) \in Nat /\ Len(s) \in Nat
      /\ DOMAIN r = 1 .. Len(s) + Len(t) /\ DOMAIN t = 1 .. Len(t) /\ DOMAIN s = 1 .. Len(s)
      /\ \A n \in 1 .. Len(s) + Len(t) : r[n] = IF n <= Len(s) THEN s[n] ELSE t[n - Len(s)]
  <2>1. s \in Seq(Entry) /\ t \in Seq(Entry)
    BY <1>4, <1>5
  <2>2. Joined(s \o t, s, t)
    BY <2>1, JoinedIs
  <2>3. Joined(r, s, t)
    BY <1>3, <2>2, Zenon
  <2> QED BY <2>3 DEF Joined
<1>7. Cardinality(U) + Cardinality(L) <= Len(batch) /\ Len(batch) \in Nat
  <2>1. DOMAIN batch = 1 .. Len(batch) /\ Len(batch) \in Nat
    BY LenProperties
  <2>2. IsFiniteSet(1 .. Len(batch)) /\ Cardinality(1 .. Len(batch)) = Len(batch)
    BY <2>1, FS_Interval
  <2>3. IsFiniteSet(U) /\ IsFiniteSet(L)
    BY <1>1, <2>1, <2>2, FS_Subset
  <2>4. Cardinality(U \cup L) = Cardinality(U) + Cardinality(L) - Cardinality(U \cap L)
    BY <2>3, FS_Union
  <2>5. Cardinality(U \cap L) = 0
    BY <1>1, FS_EmptySet
  <2>6. Cardinality(U \cup L) <= Len(batch)
    BY <1>1, <2>1, <2>2, FS_Subset
  <2> QED BY <1>4, <1>5, <2>1, <2>4, <2>5, <2>6
<1>8. \A n \in DOMAIN r : \/ n \in DOMAIN s /\ r[n] = s[n] /\ r[n].id \in C
                          \/ n > Len(s) /\ n - Len(s) \in DOMAIN t /\ r[n] = t[n - Len(s)] /\ r[n].id \notin C
  <2> SUFFICES ASSUME NEW n \in DOMAIN r
               PROVE  \/ n \in DOMAIN s /\ r[n] = s[n] /\ r[n].id \in C
                      \/ n > Len(s) /\ n - Len(s) \in DOMAIN t /\ r[n] = t[n - Len(s)] /\ r[n].id \notin C
    OBVIOUS
  <2>1. n \in 1 .. Len(s) + Len(t) /\ n \in Int
    BY <1>6
  <2>2. CASE n <= Len(s)
    <3>1. n \in DOMAIN s /\ r[n] = s[n]
      BY <1>6, <2>1, <2>2
    <3> QED BY <1>2, <1>4, <3>1
  <2>3. CASE ~ (n <= Len(s))
    <3>1. n > Len(s) /\ n - Len(s) \in DOMAIN t /\ r[n] = t[n - Len(s)]
      BY <1>6, <2>1, <2>3
    <3> QED BY <1>2, <1>5, <3>1
  <2> QED BY <2>2, <2>3
<1>9. \A n \in DOMAIN r : \E i \in Coalesced : r[n] = batch[i]
  BY <1>1, <1>4, <1>5, <1>8
<1>10. \A i \in Coalesced : Critical(batch[i]) => \E n \in DOMAIN r : r[n] = batch[i]
  <2> SUFFICES ASSUME NEW i \in Coalesced, Critical(batch[i])
               PROVE  \E n \in DOMAIN r : r[n] = batch[i]
    OBVIOUS
  <2>1. PICK n \in DOMAIN s : s[n] = batch[i]
    BY <1>4, <1>12
  <2>2. n \in DOMAIN r /\ r[n] = s[n]
    BY <1>6
  <2> QED BY <2>1, <2>2
<1>11. ASSUME NEW n \in DOMAIN r, NEW m \in DOMAIN r, n # m, r[n].id = r[m].id
       PROVE  FALSE
  <2>1. CASE r[n].id \in C
    <3>1. n \in DOMAIN s /\ r[n] = s[n] /\ m \in DOMAIN s /\ r[m] = s[m]
      BY <1>8, <1>11, <2>1
    <3>2. PICK i \in U, j \in U : i # j /\ s[n] = batch[i] /\ s[m] = batch[j]
      BY <1>4, <1>11, <3>1
    <3> QED BY <1>1, <1>2, <1>11, <3>1, <3>2 DEF HandOnce
  <2>2. CASE r[n].id \notin C
    <3>1. /\ n - Len(s) \in DOMAIN t /\ r[n] = t[n - Len(s)]
          /\ m - Len(s) \in DOMAIN t /\ r[m] = t[m - Len(s)]
      BY <1>8, <1>11, <2>2
    <3>2. n - Len(s) # m - Len(s)
      BY <1>6, <1>11
    <3> QED BY <1>5, <1>11, <3>1, <3>2
  <2> QED BY <2>1, <2>2
<1>13. ASSUME NEW n \in DOMAIN r, NEW m \in DOMAIN r, n < m, r[m].id \in C
       PROVE  r[n].id \in C
  <2>1. m \in DOMAIN s
    BY <1>8, <1>13
  <2>2. ~ (n > Len(s))
    BY <1>6, <1>13, <2>1
  <2> QED BY <1>8, <2>2
<1>14. Len(r) <= Len(batch) /\ Len(r) \in Nat
  BY <1>4, <1>5, <1>6, <1>7
<1> QED BY <1>6, <1>9, <1>10, <1>11, <1>13, <1>14

\* The batch is filtered, deduplicated and coalesced: what is dropped is not critical.
LEMMA ClassifyKeeps ==
  ASSUME OutboxInv, Classify
  PROVE  OutboxInv'
<1> DEFINE C == CriticalIds
           O == OpenIds
           P == OpenIds'
           hand == batch'
           LeftOut(x) == \E i \in DOMAIN batch \ Inserts : batch[i].id = x /\ Critical(batch[i])
<1>1. /\ C \in SUBSET Ids /\ O \in SUBSET C /\ box \in Boxes /\ batch \in Seq(Entry)
      /\ BoxTold(box, C, O) /\ Fits(box) /\ Depth(box) <= MaxSize /\ puts \in Int
      /\ HandSound(box, batch, pc, C, O, puts) /\ FreshTold(box, C, puts)
      /\ Len(batch) <= BatchSize
  BY InvGives
<1>2. /\ pc = "classify" /\ hand = SettleOrder /\ pc' = IF Sifted = {} THEN "get" ELSE "write"
      /\ seen' = seen \cup {batch[i].what : i \in Inserts}
      /\ outcome' = [id \in Ids |->
           IF \E i \in DOMAIN batch \ Sifted : batch[i].id = id /\ Critical(batch[i])
           THEN "filtered"
           ELSE IF \E i \in Sifted \ Inserts : batch[i].id = id /\ Critical(batch[i])
                THEN "counted"
                ELSE outcome[id]]
      /\ UNCHANGED <<box, puts, written>>
  BY DEF Classify
<1>3. \A i \in DOMAIN batch : /\ EntryTold(box, batch[i], C, O, puts)
                              /\ batch[i] \in Entry /\ batch[i].id \in Ids /\ batch[i].what \in Contents
                              /\ Critical(batch[i]) <=> batch[i].id \in C
  BY <1>1, InHandAre DEF HandSound, HandTold, EntryTold
<1>4. Sifted \in SUBSET DOMAIN batch /\ Inserts \in SUBSET Sifted /\ Coalesced \in SUBSET Inserts
  BY DEF Sifted, Inserts, Coalesced
<1>5. /\ CriticalIds' = C
      /\ P \subseteq O /\ \A x \in O : x \in P <=> ~ LeftOut(x)
      /\ outcome' \in [Ids -> {"none", "open", "written", "dead", "filtered", "counted"}]
  <2>1. outcome \in [Ids -> {"none", "open", "written", "dead", "filtered", "counted"}]
    BY DEF OutboxInv, OutboxTypeOK
  <2>2. \A x \in Ids : /\ LeftOut(x) => x \in C /\ outcome'[x] \in {"filtered", "counted"}
                       /\ ~ LeftOut(x) => outcome'[x] = outcome[x]
    <3> SUFFICES ASSUME NEW x \in Ids
                 PROVE  /\ LeftOut(x) => x \in C /\ outcome'[x] \in {"filtered", "counted"}
                        /\ ~ LeftOut(x) => outcome'[x] = outcome[x]
      OBVIOUS
    <3>1. LeftOut(x) => x \in C
      BY <1>3
    <3>2. LeftOut(x) <=> \/ \E i \in DOMAIN batch \ Sifted : batch[i].id = x /\ Critical(batch[i])
                         \/ \E i \in Sifted \ Inserts : batch[i].id = x /\ Critical(batch[i])
      BY <1>4
    <3> HIDE DEF LeftOut
    <3> QED BY <1>2, <3>1, <3>2
  <2> HIDE DEF LeftOut
  <2>3. outcome' \in [Ids -> {"none", "open", "written", "dead", "filtered", "counted"}]
    <3>1. \A x \in Ids : outcome'[x] \in {"none", "open", "written", "dead", "filtered", "counted"}
      BY <2>1, <2>2
    <3>2. outcome' = [x \in Ids |-> outcome'[x]]
      BY <1>2
    <3> QED BY <3>1, <3>2
  <2>4. CriticalIds' = C
    BY <2>2 DEF CriticalIds
  <2>5. P \subseteq O /\ \A x \in O : x \in P <=> ~ LeftOut(x)
    BY <2>2 DEF OpenIds
  <2> QED BY <2>3, <2>4, <2>5
<1> HIDE DEF C, O, P, hand
<1>6. HandOnce(batch, pc, C)
  BY <1>1 DEF HandSound
<1>7. /\ hand \in Seq(Entry) /\ Len(hand) <= Len(batch) /\ Len(hand) \in Nat
      /\ \A n \in DOMAIN hand : \E i \in Coalesced : hand[n] = batch[i]
      /\ \A i \in Coalesced : Critical(batch[i]) => \E n \in DOMAIN hand : hand[n] = batch[i]
      /\ \A n, m \in DOMAIN hand : n # m => hand[n].id # hand[m].id
      /\ \A n, m \in DOMAIN hand : n < m /\ hand[m].id \in C => hand[n].id \in C
  BY <1>1, <1>2, <1>3, <1>6, SettleOrderIs
<1>8. \A i \in Inserts : batch[i].id \in C => batch[i].id \in P
  <2> SUFFICES ASSUME NEW i \in Inserts, batch[i].id \in C, LeftOut(batch[i].id)
               PROVE  FALSE
    BY <1>3, <1>4, <1>5 DEF EntryTold
  <2>1. PICK j \in DOMAIN batch \ Inserts : batch[j].id = batch[i].id
    OBVIOUS
  <2> QED BY <1>4, <1>6, <2>1 DEF HandOnce
<1>9. HandTold(box, hand, C, P, puts)
  <2> SUFFICES ASSUME NEW n \in DOMAIN hand
               PROVE  EntryTold(box, hand[n], C, P, puts)
    BY DEF HandTold
  <2>1. PICK i \in Coalesced : hand[n] = batch[i]
    BY <1>7
  <2>2. EntryTold(box, batch[i], C, O, puts) /\ (batch[i].id \in C => batch[i].id \in P)
    BY <1>3, <1>4, <1>8
  <2> QED BY <2>1, <2>2 DEF EntryTold
<1>10. \A i \in DOMAIN batch : batch[i].id \in C => box.retained[batch[i].id] = Nothing
  BY <1>1, <1>2 DEF HandSound, RetainedTold
<1>11. pc' # "retrying"
  BY <1>2
<1>12. RetainedTold(box, hand, pc', C)
  <2>1. \A n \in DOMAIN hand : hand[n].id \in C => box.retained[hand[n].id] = Nothing
    BY <1>4, <1>7, <1>10
  <2> QED BY <1>11, <2>1 DEF RetainedTold
<1>13. HandOnce(hand, pc', C) /\ CriticalFirst(hand, pc', C)
  BY <1>7 DEF HandOnce, CriticalFirst
<1>14. PcTold(hand, pc')
  <2>1. ASSUME Sifted = {}
        PROVE  Len(hand) < BatchSize
    <3>1. DOMAIN hand = {}
      BY <1>4, <1>7, <2>1
    <3>2. Len(hand) = 0
      BY <1>7, <3>1, LenProperties
    <3> QED BY <3>2, SizesAssumption
  <2> QED BY <1>2, <2>1 DEF PcTold
<1>15. Kept(box, hand, P)
  <2> SUFFICES ASSUME NEW x \in P
               PROVE  /\ box.stored[x] # Nothing
                      /\ PendingIn(box, x) \/ \E n \in DOMAIN hand : hand[n].id = x
    BY DEF Kept
  <2>1. x \in O /\ x \in C /\ ~ LeftOut(x)
    BY <1>1, <1>5
  <2>2. box.stored[x] # Nothing /\ (PendingIn(box, x) \/ \E i \in DOMAIN batch : batch[i].id = x)
    BY <1>1, <2>1 DEF HandSound, Kept
  <2>3. ASSUME NEW i \in DOMAIN batch, batch[i].id = x
        PROVE  \E n \in DOMAIN hand : hand[n].id = x
    <3>1. Critical(batch[i])
      BY <1>3, <2>1, <2>3
    <3>2. i \in Inserts
      BY <2>1, <2>3, <3>1
    <3>3. i \in Coalesced
      BY <3>1, <3>2 DEF Coalesced
    <3> QED BY <1>7, <2>3, <3>1, <3>3
  <2> QED BY <2>2, <2>3
<1>16. BoxTold(box, C, P)
  <2>1. \A x \in O : LeftOut(x) => x \notin Range(box.ready.urgent) /\ box.retained[x] = Nothing
    <3> SUFFICES ASSUME NEW x \in O, LeftOut(x)
                 PROVE  x \notin Range(box.ready.urgent) /\ box.retained[x] = Nothing
      OBVIOUS
    <3>1. PICK i \in DOMAIN batch : batch[i].id = x
      OBVIOUS
    <3>2. x \in C
      BY <1>1
    <3> QED BY <1>3, <1>10, <3>1, <3>2 DEF EntryTold
  <2> HIDE DEF LeftOut
  <2>2. LanesTold(box, C, P)
    BY <1>1, <1>5, <2>1 DEF BoxTold, LanesTold
  <2>3. OnePlace(box, C, P)
    BY <1>1, <1>5, <2>1 DEF BoxTold, OnePlace
  <2> QED BY <1>1, <2>2, <2>3 DEF BoxTold
<1>17. OutboxTypeOK'
  <2>1. seen' \subseteq Contents
    <3>1. seen \subseteq Contents
      BY DEF OutboxInv, OutboxTypeOK
    <3>2. \A i \in Inserts : batch[i].what \in Contents
      BY <1>3, <1>4
    <3> QED BY <1>2, <3>1, <3>2
  <2>2. hand \in Seq(Entry) /\ Len(hand) <= BatchSize
    BY <1>1, <1>7, LenProperties, SizesAssumption
  <2>3. pc' \in {"get", "write"} /\ box' = box /\ puts' = puts /\ written' = written
    BY <1>2
  <2> QED BY <1>5, <2>1, <2>2, <2>3 DEF OutboxInv, OutboxTypeOK, hand
<1> QED BY <1>1, <1>2, <1>5, <1>9, <1>12, <1>13, <1>14, <1>15, <1>16, <1>17
        DEF OutboxInv, Told, HandSound, C, P, hand

----------------------------------------------------------------------------
(* The theorems. *)

\* Every step keeps the invariant.
LEMMA OutboxStepKeeps ==
  ASSUME OutboxInv, [OutboxNext]_outbox_vars
  PROVE  OutboxInv'
<1>1. ASSUME NEW c \in Contents, PutNowait(c)
      PROVE  OutboxInv'
  BY <1>1, PutNowaitKeeps
<1>2. ASSUME NEW c \in Contents, Expire(c)
      PROVE  OutboxInv'
  BY <1>2, ExpireKeeps
<1>3. CASE Start
  BY <1>3, StartKeeps
<1>4. CASE GetPromotes
  BY <1>4, GetPromotesKeeps
<1>5. CASE Take
  BY <1>5, TakeKeeps
<1>6. CASE GetTimesOut
  BY <1>6, GetTimesOutKeeps
<1>7. CASE Classify
  BY <1>7, ClassifyKeeps
<1>8. CASE Write
  BY <1>8, WriteKeeps
<1>9. CASE Settle
  <2>1. PICK e \in Entry : Acknowledge(e) \/ Retry(e) \/ DeadLetter(e) \/ Unknown(e)
    BY <1>9 DEF Settle
  <2> QED BY <2>1, AcknowledgeKeeps, RetryKeeps, DeadLetterKeeps, UnknownKeeps
<1>10. CASE RetryGivesUp
  BY <1>10, RetryGivesUpKeeps
<1>11. CASE UNCHANGED outbox_vars
  <2>1. UNCHANGED <<box, puts, pc, batch, written, seen, outcome>>
    BY <1>11 DEF outbox_vars
  <2>2. CriticalIds' = CriticalIds /\ OpenIds' = OpenIds
    BY <2>1, SameOutcome
  <2>3. OutboxTypeOK'
    BY <2>1 DEF OutboxInv, OutboxTypeOK
  <2> QED BY <2>1, <2>2, <2>3 DEF OutboxInv, Told
<1> QED BY <1>1, <1>2, <1>3, <1>4, <1>5, <1>6, <1>7, <1>8, <1>9, <1>10, <1>11
        DEF OutboxNext, WorkerStep

\* The inductive invariant: the outbox and the hands of its worker agree, whatever is put,
\* evicted, promoted, written, tried again or given up. (LocalOutbox, PersistenceWorker)
THEOREM OutboxInvariance == OutboxSpec => []OutboxInv
<1>1. OutboxInit => OutboxInv
  BY InitTold
<1>2. OutboxInv /\ [OutboxNext]_outbox_vars => OutboxInv'
  BY OutboxStepKeeps
<1> QED BY <1>1, <1>2, PTL DEF OutboxSpec

\* Every variable keeps its type, the ready queue its size and a batch its length.
\* (put_nowait, _drain_batch)
THEOREM OutboxTypeCorrect == OutboxSpec => []OutboxTypeOK
<1>1. OutboxInv => OutboxTypeOK
  BY DEF OutboxInv
<1> QED BY <1>1, OutboxInvariance, PTL

\* A critical event stays in the outbox until it is written or dead-lettered: neither
\* pressure, nor a merge, nor a retry, nor an error that drops the rest of the batch loses it.
\* (put_nowait, _enforce_retained_capacity, retry, _finalize_event_outcomes)
THEOREM CriticalIsKept == OutboxSpec => []CriticalKept
<1>1. OutboxInv => CriticalKept
  BY InvMeans
<1> QED BY <1>1, OutboxInvariance, PTL
=============================================================================
