----------------------------- MODULE LocalOutbox -----------------------------
(***************************************************************************)
(* LocalOutbox (infra/outbox/local_queue.py), fed by put_nowait from the   *)
(* trading path and emptied by PersistenceWorker (app/audit/worker.py)     *)
(* through its filter and deduper, as wired in main.py.                    *)
(*                                                                         *)
(* An event of priority P0 or P1 is critical.  Any other carries a merge   *)
(* key, under which a later one takes the place of the one stored.  What   *)
(* finds the ready queue full is retained; only there may events be        *)
(* evicted, and only ones that are not critical.                           *)
(*                                                                         *)
(* All of this runs on one event loop, so put_nowait can come between two  *)
(* steps of the worker only where the worker is suspended.  The loops over *)
(* the retained area are given by the set of events they end up moving.    *)
(***************************************************************************)
EXTENDS Integers, FiniteSets, Sequences, Functions

CONSTANTS
  Contents,      \* what an event says: its type, market and payload
  MergeKeys, NoKey,
  KeyOf,         \* the merge key of a content, NoKey if it is critical
  Garbage,       \* contents that GarbageFilter drops
  Unroutable,    \* contents with a record of a kind the worker does not write
  MaxSize,       \* max_size of the ready queue and of the retained area (0, no limit, is not modelled)
  BatchSize,
  MaxRetries,
  PollPatience,  \* poll_timeout_s in units of the enqueue timeout
  DrainPatience, \* the drain deadline in the same units
  MaxPuts,       \* bound of the model: events put
  Nothing

\* Events are numbered by creation, which is also the order of created_at.
Ids == 1 .. MaxPuts

Version == [what : Contents, tries : 0 .. MaxRetries]

\* A version in the worker's hands.
Entry == [id : Ids, what : Contents, tries : 0 .. MaxRetries]

ASSUME ContentsAssumption ==
  /\ KeyOf \in [Contents -> MergeKeys \cup {NoKey}] /\ NoKey \notin MergeKeys
  /\ Nothing \notin Version

ASSUME SizesAssumption ==
  /\ MaxSize \in Nat \ {0} /\ BatchSize \in Nat \ {0} /\ MaxRetries \in Nat /\ MaxPuts \in Nat

Critical(e) == KeyOf[e.what] = NoKey

VARIABLES
  box,      \* the LocalOutbox
  puts,     \* how many events have been put
  pc,       \* where the worker is
  batch,    \* what it has in hand, with the version it read
  written,  \* the events of the batch whose records are all in the database
  seen,     \* contents the deduper has seen within their window
  outcome   \* history: what became of each critical event

outbox_vars == <<box, puts, pc, batch, written, seen, outcome>>

(***************************************************************************)
(* The outbox: ready (urgent before low, each in order of arrival), stored *)
(* (_events_by_id), queued (_queued_event_ids), retained and index         *)
(* (_merge_index).                                                         *)
(***************************************************************************)
Boxes ==
  [ready : [urgent : Seq(Ids), low : Seq(Ids)],
   stored : [Ids -> Version \cup {Nothing}],
   queued : SUBSET Ids,
   retained : [Ids -> Version \cup {Nothing}],
   index : [MergeKeys -> Ids \cup {0}]]

EmptyBox ==
  [ready |-> [urgent |-> <<>>, low |-> <<>>],
   stored |-> [id \in Ids |-> Nothing],
   queued |-> {},
   retained |-> [id \in Ids |-> Nothing],
   index |-> [k \in MergeKeys |-> 0]]

Depth(b) == Len(b.ready.urgent) + Len(b.ready.low)

Room(b) == MaxSize - Depth(b)

RetainedIds(b) == {id \in Ids : b.retained[id] # Nothing}

\* The retained events a promotion tries to enqueue.
Unqueued(b) == RetainedIds(b) \ b.queued

Current(b, id) == IF b.stored[id] # Nothing THEN b.stored[id] ELSE b.retained[id]

Indexed(b, id, e) ==
  IF Critical(e) THEN b.index ELSE [b.index EXCEPT ![KeyOf[e.what]] = id]

Unindexed(b, ids) == [k \in MergeKeys |-> IF b.index[k] \in ids THEN 0 ELSE b.index[k]]

Evictable(b) == {id \in Unqueued(b) : ~Critical(b.retained[id])}

\* The newest go first, until the retained area fits or only others are left.
Evicted(b) ==
  {id \in Evictable(b) :
     Cardinality(RetainedIds(b)) - Cardinality({x \in Evictable(b) : x > id}) > MaxSize}

EnforceCapacity(b) ==
  LET gone == Evicted(b) IN
  [b EXCEPT !.stored = [id \in Ids |-> IF id \in gone THEN Nothing ELSE @[id]],
            !.retained = [id \in Ids |-> IF id \in gone THEN Nothing ELSE @[id]],
            !.index = Unindexed(b, gone)]

StorePending(b, id, e) ==
  [b EXCEPT !.stored[id] = e, !.retained[id] = Nothing, !.index = Indexed(b, id, e)]

StoreRetained(b, id, e) ==
  EnforceCapacity([b EXCEPT !.stored[id] = e, !.retained[id] = e,
                            !.index = Indexed(b, id, e)])

Enter(b, id, e) ==
  IF Critical(e) THEN [b EXCEPT !.ready.urgent = Append(@, id)]
                 ELSE [b EXCEPT !.ready.low = Append(@, id)]

\* Numbers from the least to the greatest.
Rank(ids, id) == Cardinality({x \in ids : x < id})

Aged(ids) == [n \in 1 .. Cardinality(ids) |-> CHOOSE id \in ids : Rank(ids, id) = n - 1]

\* Retained events in order of priority and age, as many as there is room for.
Promotable(b) ==
  LET urgent == {id \in Unqueued(b) : Critical(b.retained[id])}
      Before(id) == IF id \in urgent THEN {x \in urgent : x < id}
                                     ELSE urgent \cup {x \in Unqueued(b) : x < id}
  IN {id \in Unqueued(b) : Cardinality(Before(id)) < Room(b)}

Promote(b) ==
  LET up == Promotable(b)
      urgent == {id \in up : Critical(b.retained[id])}
  IN [b EXCEPT !.ready.urgent = @ \o Aged(urgent),
               !.ready.low = @ \o Aged(up \ urgent),
               !.queued = @ \cup up,
               !.retained = [id \in Ids |-> IF id \in up THEN Nothing ELSE @[id]]]

Ack(b, id) ==
  Promote([b EXCEPT !.stored[id] = Nothing,
                    !.retained[id] = Nothing,
                    !.queued = @ \ {id},
                    !.index = IF b.stored[id] # Nothing THEN Unindexed(b, {id}) ELSE @])

------------------------------------------------------------------------------
OutboxInit ==
  /\ box = EmptyBox
  /\ puts = 0
  /\ pc = "off"
  /\ batch = <<>>
  /\ written = {}
  /\ seen = {}
  /\ outcome = [id \in Ids |-> "none"]

\* Is the worker not running, or suspended in an await?
Suspended ==
  \/ pc \in {"off", "timeout", "write", "retrying"}
  \/ pc = "take" /\ Depth(box) = 0
  \/ pc \in {"take", "settle"} /\ Room(box) = 0 /\ Unqueued(box) # {}

(***************************************************************************)
(* put_nowait, by any task of the trading path: merge, enqueue or retain.  *)
(***************************************************************************)
MergeTarget(c) ==
  IF KeyOf[c] = NoKey THEN 0
  ELSE LET id == box.index[KeyOf[c]]
       IN IF id # 0 /\ Current(box, id) # Nothing THEN id ELSE 0

PutMerged(c) ==
  LET id == MergeTarget(c)
      merged == [what |-> c, tries |-> Current(box, id).tries]
  IN /\ id # 0
     /\ box' = IF id \in box.queued THEN StorePending(box, id, merged)
                                    ELSE StoreRetained(box, id, merged)
     /\ UNCHANGED outcome

PutNew(c) ==
  LET id == puts + 1
      e == [what |-> c, tries |-> 0]
  IN /\ MergeTarget(c) = 0
     /\ box' = IF Room(box) > 0 THEN StorePending(Enter(box, id, e), id, e)
                                ELSE StoreRetained(box, id, e)
     /\ outcome' = IF Critical(e) THEN [outcome EXCEPT ![id] = "open"] ELSE outcome

PutNowait(c) ==
  /\ Suspended
  /\ puts < MaxPuts
  /\ puts' = puts + 1
  /\ PutMerged(c) \/ PutNew(c)
  /\ UNCHANGED <<pc, batch, written, seen>>

(***************************************************************************)
(* LocalOutbox.get: promote, then take the first of the ready queue.  Each *)
(* event that finds no room costs a timeout of its own, and the caller's   *)
(* timeout, for the whole of get, runs meanwhile.                          *)
(***************************************************************************)
Patience == IF batch = <<>> THEN PollPatience ELSE DrainPatience

GetPromotes ==
  /\ pc = "get"
  /\ box' = Promote(box)
  /\ pc' = IF Cardinality(Unqueued(box')) < Patience THEN "take" ELSE "timeout"
  /\ UNCHANGED <<puts, batch, written, seen, outcome>>

Pop(b) ==
  IF b.ready.urgent # <<>>
  THEN [b EXCEPT !.ready.urgent = Tail(@), !.queued = @ \ {Head(b.ready.urgent)}]
  ELSE [b EXCEPT !.ready.low = Tail(@), !.queued = @ \ {Head(b.ready.low)}]

First(b) == IF b.ready.urgent # <<>> THEN Head(b.ready.urgent) ELSE Head(b.ready.low)

Take ==
  /\ pc = "take"
  /\ Depth(box) > 0
  /\ box' = Pop(box)
  /\ LET id == First(box)
         e == box.stored[id]
     IN IF e = Nothing
        THEN pc' = "get" /\ batch' = batch
        ELSE /\ batch' = Append(batch, [id |-> id, what |-> e.what, tries |-> e.tries])
             /\ pc' = IF Len(batch') < BatchSize THEN "get" ELSE "classify"
  /\ UNCHANGED <<puts, written, seen, outcome>>

\* The caller of get gives up: the poll returns nothing, a drain goes on with
\* the batch it has.
GetTimesOut ==
  /\ \/ pc = "timeout"
     \/ pc = "take" /\ Depth(box) = 0
     \/ pc = "take" /\ batch # <<>> /\ Unqueued(box) # {}
  /\ pc' = IF batch = <<>> THEN "get" ELSE "classify"
  /\ UNCHANGED <<box, puts, batch, written, seen, outcome>>

(***************************************************************************)
(* GarbageFilter.filter, AuditDeduper.classify, _coalesce_low_priority.    *)
(* What they leave out is not acknowledged.                                *)
(***************************************************************************)
Sifted == {i \in DOMAIN batch : batch[i].what \notin Garbage}

Inserts ==
  {i \in Sifted : /\ batch[i].what \notin seen
                  /\ \A j \in Sifted : j < i => batch[j].what # batch[i].what}

Coalesced ==
  {i \in Inserts : Critical(batch[i])
                   \/ \A j \in Inserts : j > i => KeyOf[batch[j].what] # KeyOf[batch[i].what]}

\* One of each event of the batch, by age: the others of one event are coalesced.
ByAge(chosen) ==
  LET ids == Aged({batch[i].id : i \in chosen})
  IN  [n \in DOMAIN ids |-> batch[CHOOSE i \in chosen : batch[i].id = ids[n]]]

AsTheyCame(chosen) == LET at == Aged(chosen) IN [n \in DOMAIN at |-> batch[at[n]]]

\* MUTANT of SettleOrder: the batch is settled in the order of creation.
SettleOrderByAge == ByAge(Coalesced)

\* Critical events first, as they came; then the others by age.
SettleOrder ==
  LET urgent == {i \in Coalesced : Critical(batch[i])}
  IN  AsTheyCame(urgent) \o ByAge(Coalesced \ urgent)

Classify ==
  /\ pc = "classify"
  /\ batch' = SettleOrder
  /\ seen' = seen \cup {batch[i].what : i \in Inserts}
  /\ outcome' = [id \in Ids |->
       IF \E i \in DOMAIN batch \ Sifted : batch[i].id = id /\ Critical(batch[i])
       THEN "filtered"
       ELSE IF \E i \in Sifted \ Inserts : batch[i].id = id /\ Critical(batch[i])
            THEN "counted"
            ELSE outcome[id]]
  /\ pc' = IF Sifted = {} THEN "get" ELSE "write"
  /\ UNCHANGED <<box, puts, written>>

\* The window of a content ends, or it is the oldest of a full table.
Expire(c) ==
  /\ c \in seen
  /\ seen' = seen \ {c}
  /\ UNCHANGED <<box, puts, pc, batch, written, outcome>>

(***************************************************************************)
(* _persist_batch: the repository takes all records of some events.  Then  *)
(* _finalize_event_outcomes, one event after the other.                    *)
(***************************************************************************)
Write ==
  /\ pc = "write"
  /\ \E ok \in SUBSET {i \in DOMAIN batch : batch[i].what \notin Unroutable} :
       written' = {batch[i].id : i \in ok}
  /\ pc' = IF batch = <<>> THEN "get" ELSE "settle"
  /\ UNCHANGED <<box, puts, batch, seen, outcome>>

GoOn ==
  /\ batch' = Tail(batch)
  /\ written' = written \ {Head(batch).id}
  /\ pc' = IF Len(batch) = 1 THEN "get" ELSE "settle"

Settling(e) == pc = "settle" /\ e = Head(batch)

End(e, how) == outcome' = IF Critical(e) THEN [outcome EXCEPT ![e.id] = how] ELSE outcome

Acknowledge(e) ==
  /\ Settling(e)
  /\ e.id \in written
  /\ box' = Ack(box, e.id)
  /\ End(e, "written")
  /\ GoOn
  /\ UNCHANGED <<puts, seen>>

\* LocalOutbox.retry: store the event with its new count, then try to enqueue.
Retry(e) ==
  LET old == Current(box, e.id)
      retried == [old EXCEPT !.tries = @ + 1]
      stored == StoreRetained(box, e.id, retried)
  IN /\ Settling(e)
     /\ e.id \notin written
     /\ e.tries < MaxRetries
     /\ old # Nothing
     /\ IF e.id \in box.queued
        THEN box' = StorePending(box, e.id, retried) /\ GoOn
        ELSE IF Room(stored) > 0
        THEN /\ box' = [Enter(stored, e.id, retried) EXCEPT
                          !.queued = @ \cup {e.id}, !.retained[e.id] = Nothing]
             /\ GoOn
        ELSE /\ box' = stored
             /\ batch' = <<[id |-> e.id, what |-> old.what, tries |-> old.tries + 1]>>
                         \o Tail(batch)
             /\ pc' = "retrying"
             /\ UNCHANGED written
     /\ UNCHANGED <<puts, seen, outcome>>

\* No room in time: the event is retained, as it was when retry began.
RetryGivesUp ==
  LET e == Head(batch) IN
  /\ pc = "retrying"
  /\ box' = StoreRetained(box, e.id, [what |-> e.what, tries |-> e.tries])
  /\ GoOn
  /\ UNCHANGED <<puts, seen, outcome>>

\* LocalOutbox.dead_letter: what is retained under the same id stays there.
DeadLetter(e) ==
  /\ Settling(e)
  /\ e.id \notin written
  /\ e.tries >= MaxRetries
  /\ Current(box, e.id) # Nothing
  /\ box' = [box EXCEPT !.stored[e.id] = Nothing,
                        !.retained[e.id] = IF box.stored[e.id] # Nothing THEN @ ELSE Nothing,
                        !.queued = @ \ {e.id},
                        !.index = Unindexed(box, {e.id})]
  /\ End(e, "dead")
  /\ GoOn
  /\ UNCHANGED <<puts, seen>>

\* retry and dead_letter raise KeyError for an event that is gone; the rest of
\* the batch is dropped with it.
Unknown(e) ==
  /\ Settling(e)
  /\ e.id \notin written
  /\ Current(box, e.id) = Nothing
  /\ batch' = <<>>
  /\ written' = {}
  /\ pc' = "off"
  /\ UNCHANGED <<box, puts, seen, outcome>>

Settle == \E e \in Entry : Acknowledge(e) \/ Retry(e) \/ DeadLetter(e) \/ Unknown(e)

\* The worker's task starts, or goes on after the pause that follows an error.
Start ==
  /\ pc = "off"
  /\ pc' = "get"
  /\ UNCHANGED <<box, puts, batch, written, seen, outcome>>

WorkerStep ==
  \/ Start \/ GetPromotes \/ Take \/ GetTimesOut
  \/ Classify \/ Write \/ Settle \/ RetryGivesUp

OutboxNext ==
  \/ \E c \in Contents : PutNowait(c) \/ Expire(c)
  \/ WorkerStep

OutboxSpec == OutboxInit /\ [][OutboxNext]_outbox_vars

------------------------------------------------------------------------------
InReady(id) == id \in Range(box.ready.urgent) \cup Range(box.ready.low)

Pending(id) == InReady(id) \/ box.retained[id] # Nothing

InHand(id) == \E i \in DOMAIN batch : batch[i].id = id

\* Every part of the state is of its type, and the ready queue keeps its size.
OutboxTypeOK ==
  /\ box \in Boxes /\ Depth(box) <= MaxSize
  /\ puts \in 0 .. MaxPuts
  /\ pc \in {"off", "get", "take", "timeout", "classify", "write", "settle", "retrying"}
  /\ batch \in Seq(Entry)
  /\ Len(batch) <= BatchSize
  /\ written \subseteq Ids
  /\ seen \subseteq Contents
  /\ outcome \in [Ids -> {"none", "open", "written", "dead", "filtered", "counted"}]

\* A critical event that has not been written, given up after its retries or left out by
\* the filter or the deduper is stored and on its way to the worker.
OpenIsStored ==
  \A id \in Ids : outcome[id] = "open" => box.stored[id] # Nothing /\ (Pending(id) \/ InHand(id))

\* An event known as queued has an entry in the ready queue and no copy in the retained
\* area, so that no promotion passes over an event that nothing else takes; the merge
\* index leads to a stored event of its key; beyond its size the retained area holds
\* critical events only.
StoresAgree ==
  /\ \A id \in box.queued : InReady(id) /\ box.retained[id] = Nothing
  /\ \A k \in MergeKeys : box.index[k] # 0 =>
       LET e == box.stored[box.index[k]] IN e # Nothing /\ KeyOf[e.what] = k
  /\ Cardinality(RetainedIds(box)) > MaxSize =>
       \A id \in RetainedIds(box) : Critical(box.retained[id])

\* An event that must not be lost is stored and in the queue, the retained area or the
\* worker's hands until it is written, given up or filtered: overflow, an error half way
\* through a batch and a race with a merge cost other events only; and the outbox's stores
\* tell one story (local_queue.py, worker.py).
CriticalKept == OutboxTypeOK /\ OpenIsStored /\ StoresAgree
==============================================================================
