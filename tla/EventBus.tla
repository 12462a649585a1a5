------------------------------ MODULE EventBus ------------------------------
(***************************************************************************)
(* EventBus (runtime/event_bus.py) with the tasks that publish to it and   *)
(* consume from it as wired in main.py.                                    *)
(*                                                                         *)
(* Trading lane (P0, P1): a bounded asyncio.Queue of keys and a dict with  *)
(* the latest event of each key.  publish waits for a slot, publish_nowait *)
(* gives the event to the outbox only when there is none.                  *)
(* Maintenance lane (P2): a bounded queue; what does not fit, or comes     *)
(* while low priority is paused, is retained on the side and moved to the  *)
(* queue whenever a consumer takes something.                              *)
(* P3 never enters a lane: with an outbox sink bound, as main.py does, it  *)
(* is mirrored to the outbox and nothing else.  next_event and the         *)
(* persistence lane have no caller.                                        *)
(*                                                                         *)
(* A step is the code between two suspensions of a task.                   *)
(***************************************************************************)
EXTENDS Naturals, Sequences

CONSTANTS
  Feed,         \* the market WS task: awaits publish of book updates, by token
  Accounts,     \* tasks that await publish of order events (user WS, order control)
  Operators,    \* callers of publish_nowait on the trading lane
  Timers,       \* scheduler jobs that publish on the maintenance lane
  Worker,       \* the decision worker: consumer of the trading lane, and a publisher
  Tokens,
  TradingCapacity, MaintenanceCapacity, RetainedCapacity,
  MaxSent,      \* bound of the model: events per publisher
  NoEvent, NoToken

ASSUME CapacityAssumption ==
  /\ TradingCapacity \in Nat \ {0}
  /\ MaintenanceCapacity \in Nat \ {0}
  /\ RetainedCapacity \in Nat \ {0}
  /\ MaxSent \in Nat

Publishers == {Feed, Worker} \cup Accounts \cup Operators \cup Timers

\* MUTANT of Merged: order events get a merge key that does not tell them apart.
MergedOrders == {"book", "meta", "order"}

\* The kinds whose publisher sets a merge key.
Merged == {"book", "meta"}

\* The kinds that differ in lane, merging or addressee: orderbook_snapshot_updated,
\* market_updated, order and position events, entry signals, the periodic
\* reconcile trigger and the synthetic position heartbeat.
MaintenanceKinds == {"meta", "reconcile", "heartbeat"}
Kinds == {"order", "signal", "book"} \cup MaintenanceKinds

KindsOf(p) ==
  IF p = Feed THEN {"book", "meta"}
  ELSE IF p \in Operators THEN {"signal"}
  ELSE IF p \in Timers THEN {"reconcile", "heartbeat"}
  ELSE {"order"}

\* Only the kinds of the market feed differ by token.
TokensOf(kind) == IF kind \in {"book", "meta"} THEN Tokens ELSE {NoToken}

\* Key does not tell an event's id from a merge key; the ids of the code are random.
ASSUME NamesAssumption ==
  /\ Feed \notin Operators
  /\ Publishers \cap Kinds = {}

Event == [by : Publishers, no : 1 .. MaxSent, kind : Kinds, token : Tokens \cup {NoToken}]

ASSUME NoEventAssumption == NoEvent \notin Event

\* merge_key where the publisher sets one, else the event id.
Key(e) == IF e.kind \in Merged THEN <<e.kind, e.token>> ELSE <<e.by, e.no>>

VARIABLES
  sent,        \* sent[p]: how many events p has published or tries to publish
  blocked,     \* blocked[p]: the event whose publish awaits a trading slot, or NoEvent
  keys,        \* _trading_queue
  pending,     \* _trading_pending_events: at most one event of each key
  upkeep,      \* _maintenance_queue
  retained,    \* _retained[MAINTENANCE], oldest first
  paused,      \* _low_priority_paused
  deciding,    \* is the decision worker inside process_event?
  mirrored,    \* the events given to the outbox sink
  decided,     \* the events the decision worker has taken
  reconciled   \* the events the reconcile loop has taken

busVars == <<keys, pending, upkeep, retained, paused>>
vars == <<sent, blocked, busVars, deciding, mirrored, decided, reconciled>>

TypeOK ==
  /\ sent \in [Publishers -> 0 .. MaxSent]
  /\ blocked \in [Publishers -> Event \cup {NoEvent}]
  /\ keys \in Seq({Key(e) : e \in Event})
  /\ pending \subseteq Event
  /\ upkeep \in Seq(Event)
  /\ retained \in Seq(Event)
  /\ paused \in BOOLEAN
  /\ deciding \in BOOLEAN
  /\ mirrored \subseteq Event
  /\ decided \subseteq Event
  /\ reconciled \subseteq Event

Init ==
  /\ sent = [p \in Publishers |-> 0]
  /\ blocked = [p \in Publishers |-> NoEvent]
  /\ keys = <<>>
  /\ pending = {}
  /\ upkeep = <<>>
  /\ retained = <<>>
  /\ paused = FALSE
  /\ deciding = FALSE
  /\ mirrored = {}
  /\ decided = {}
  /\ reconciled = {}

------------------------------------------------------------------------------
(* The trading lane. *)

TradingFull == Len(keys) = TradingCapacity

IsPending(k) == \E e \in pending : Key(e) = k

\* _trading_pending_events[key] = event
SetPending(e) == pending' = {f \in pending : Key(f) # Key(e)} \cup {e}

Overwrite(e) ==
  /\ IsPending(Key(e))
  /\ SetPending(e)
  /\ UNCHANGED keys

\* MUTANT of Enqueue: the queue entry is the token instead of the key.
EnqueueToken(e) ==
  /\ ~TradingFull
  /\ keys' = Append(keys, e.token)
  /\ SetPending(e)

Enqueue(e) ==
  /\ ~TradingFull
  /\ keys' = Append(keys, Key(e))
  /\ SetPending(e)

\* _mirror_to_outbox; the sink bound by main.py does not fail.
Mirror(e) == mirrored' = mirrored \cup {e}

\* publish on the trading lane, up to its end or to the await of a slot.
AwaitedPublish(p, e) ==
  /\ UNCHANGED <<upkeep, retained, paused>>
  /\ \/ /\ Overwrite(e) \/ (~IsPending(Key(e)) /\ Enqueue(e))
        /\ Mirror(e)
        /\ UNCHANGED blocked
     \/ /\ ~IsPending(Key(e))
        /\ TradingFull
        /\ blocked' = [blocked EXCEPT ![p] = e]
        /\ UNCHANGED <<keys, pending, mirrored>>

\* publish resumes: queue.put succeeds and the event is stored under its key.
Unblock(p) ==
  LET e == blocked[p]
  IN /\ e # NoEvent
     /\ Enqueue(e)
     /\ Mirror(e)
     /\ blocked' = [blocked EXCEPT ![p] = NoEvent]
     /\ UNCHANGED <<sent, upkeep, retained, paused, deciding, decided, reconciled>>

\* MUTANT of NowaitPublish: the event is stored before put_nowait can refuse.
NowaitPublishStoresFirst(e) ==
  /\ \/ Overwrite(e)
     \/ ~IsPending(Key(e)) /\ Enqueue(e)
     \/ ~IsPending(Key(e)) /\ TradingFull /\ SetPending(e) /\ UNCHANGED keys
  /\ Mirror(e)
  /\ UNCHANGED <<blocked, upkeep, retained, paused>>

\* publish_nowait on the trading lane: a full queue refuses the event, which
\* then exists in the outbox only.
NowaitPublish(e) ==
  /\ \/ Overwrite(e)
     \/ ~IsPending(Key(e)) /\ Enqueue(e)
     \/ ~IsPending(Key(e)) /\ TradingFull /\ UNCHANGED <<keys, pending>>
  /\ Mirror(e)
  /\ UNCHANGED <<blocked, upkeep, retained, paused>>

------------------------------------------------------------------------------
(* The maintenance lane. *)

Min2(a, b) == IF a < b THEN a ELSE b

\* _flush_retained_best_effort: from the front of r to queue q while it has room.
Flush(q, r) ==
  LET n == Min2(Len(r), MaintenanceCapacity - Len(q))
  IN /\ upkeep' = q \o SubSeq(r, 1, n)
     /\ retained' = SubSeq(r, n + 1, Len(r))

FlushUnlessPaused(q) ==
  IF paused THEN upkeep' = q /\ UNCHANGED retained
  ELSE Flush(q, retained)

\* _retain: replace the event with the same identity, else append; the oldest
\* goes when there is no room.
Retain(e) ==
  IF \E i \in 1 .. Len(retained) : Key(retained[i]) = Key(e)
    THEN retained' = [i \in 1 .. Len(retained) |->
                        IF Key(retained[i]) = Key(e) THEN e ELSE retained[i]]
    ELSE IF Len(retained) >= RetainedCapacity
           THEN retained' = Append(Tail(retained), e)
           ELSE retained' = Append(retained, e)

\* publish and publish_nowait on the maintenance lane: neither waits.
LowPublish(e) ==
  /\ IF paused \/ Len(upkeep) = MaintenanceCapacity
       THEN Retain(e) /\ UNCHANGED upkeep
       ELSE upkeep' = Append(upkeep, e) /\ UNCHANGED retained
  /\ Mirror(e)
  /\ UNCHANGED <<blocked, keys, pending, paused>>

------------------------------------------------------------------------------
(* The publishers. *)

\* A publisher starts its next publish once the previous one has returned; the
\* decision worker publishes only while it processes an event.
Publish(p) ==
  /\ blocked[p] = NoEvent
  /\ sent[p] < MaxSent
  /\ p = Worker => deciding
  /\ sent' = [sent EXCEPT ![p] = @ + 1]
  /\ \E kind \in KindsOf(p) : \E token \in TokensOf(kind) :
       LET e == [by |-> p, no |-> sent[p] + 1, kind |-> kind, token |-> token]
       IN IF kind \in MaintenanceKinds THEN LowPublish(e)
          ELSE IF p \in Operators THEN NowaitPublish(e)
          ELSE AwaitedPublish(p, e)
  /\ UNCHANGED <<deciding, decided, reconciled>>

------------------------------------------------------------------------------
(* The consumers and the supervisor. *)

\* next_trading_event: a key without a pending event is skipped.
TakeTrading ==
  LET k == Head(keys)
      taken == {e \in pending : Key(e) = k}
  IN /\ ~deciding
     /\ keys # <<>>
     /\ keys' = Tail(keys)
     /\ pending' = pending \ taken
     /\ decided' = decided \cup taken
     \* process_event returns at once from an event the worker emitted itself
     /\ deciding' = (\E e \in taken : e.by # Worker)
     /\ IF taken = {} THEN UNCHANGED <<upkeep, retained>> ELSE FlushUnlessPaused(upkeep)
     /\ UNCHANGED <<sent, blocked, paused, mirrored, reconciled>>

\* process_event returns; it cannot while one of its publishes is blocked.
EndDecision ==
  /\ deciding
  /\ blocked[Worker] = NoEvent
  /\ deciding' = FALSE
  /\ UNCHANGED <<sent, blocked, busVars, mirrored, decided, reconciled>>

\* next_maintenance_event in the reconcile loop, whatever the loop does with the
\* event: it skips all but reconcile triggers and market resolutions.
TakeMaintenance ==
  /\ upkeep # <<>>
  /\ FlushUnlessPaused(Tail(upkeep))
  /\ reconciled' = reconciled \cup {Head(upkeep)}
  /\ UNCHANGED <<sent, blocked, keys, pending, paused, deciding, mirrored, decided>>

\* Supervisor.refresh.  It pauses on the depth of the trading lane or on a
\* latency gauge, which may say anything.
Pause ==
  /\ ~paused
  /\ paused' = TRUE
  /\ UNCHANGED <<sent, blocked, keys, pending, upkeep, retained, deciding, mirrored, decided, reconciled>>

\* resume_low_priority.
Resume ==
  /\ paused
  /\ paused' = FALSE
  /\ Flush(upkeep, retained)
  /\ UNCHANGED <<sent, blocked, keys, pending, deciding, mirrored, decided, reconciled>>

Next ==
  \/ \E p \in Publishers : Publish(p) \/ Unblock(p)
  \/ TakeTrading \/ EndDecision \/ TakeMaintenance
  \/ Pause \/ Resume

Spec == Init /\ [][Next]_vars

------------------------------------------------------------------------------
(* What makes the bus correct. *)

Occurs(x, s) == \E i \in 1 .. Len(s) : s[i] = x
NoRepeats(s) == \A i, j \in 1 .. Len(s) : s[i] = s[j] => i = j

\* Each pending event has one queue entry to be taken by, and no entry is a ghost.
TradingAgrees ==
  /\ Len(keys) <= TradingCapacity
  /\ NoRepeats(keys)
  /\ \A e \in pending : Occurs(Key(e), keys)
  /\ \A i \in 1 .. Len(keys) : IsPending(keys[i])

\* Of each identity the newest event alone is kept back.
RetainedDistinct ==
  /\ Len(upkeep) <= MaintenanceCapacity /\ Len(retained) <= RetainedCapacity
  /\ \A i, j \in 1 .. Len(retained) : Key(retained[i]) = Key(retained[j]) => i = j

\* The queue of keys and the dict of pending events never drift apart, although an awaited
\* publish may store its event long after it looked for the key; so the dict is bounded by the
\* queue, and a long pause of the other lane costs no more than one event per identity.
LaneAgrees == TradingAgrees /\ RetainedDistinct

\* An event of the trading lane whose publish was awaited is pending, was taken,
\* or gave way to a newer one of its key: conflation never loses the newest.
AwaitedNotLost ==
  \A e \in mirrored : e.kind \in {"book", "order"} =>
    \/ e \in pending \cup decided
    \/ \E f \in mirrored : Key(f) = Key(e) /\ f.no > e.no

==============================================================================
