----------------------------- MODULE AuditTables -----------------------------
(***************************************************************************)
(* What the database holds of the events that were published: the sink     *)
(* that picks them (infra/outbox/event_sink.py), the records made of them  *)
(* (app/audit/records.py), their batch writes with the fall back to single *)
(* ones (app/audit/worker.py) and the upserts of the repositories          *)
(* (infra/db/persistence.py, infra/db/repositories).  The queue between    *)
(* sink and worker is in LocalOutbox and stands here as a sequence.        *)
(***************************************************************************)
EXTENDS Integers, FiniteSets, Sequences, Functions

CONSTANTS
    Shapes,      \* events that are published: [type, order]
    MaxBatch,    \* batch_size
    MaxRetries,  \* _max_retry_count
    MaxEvents,   \* bound
    Empty        \* no event, no row

(* Of the order in an event: its row is known by the exchange's number, or by  *)
(* the local key while there is none; a field the table needs may be missing;  *)
(* the payload may have no order at all.                                       *)
OrderForms == {"exchange", "local", "incomplete", "absent"}

Types == {"order_state_updated", "fill_recorded", "position_updated", "balance_updated", "live_state"}

Ids == 1 .. MaxEvents

ASSUME ShapesAssumption ==
    /\ Shapes \subseteq [type : Types, order : OrderForms]
    /\ Empty \notin Shapes /\ Empty \notin Ids
    /\ MaxBatch \in Nat /\ MaxRetries \in Nat /\ MaxEvents \in Nat

VARIABLES
    event,    \* what was published, by number
    waiting,  \* the outbox
    tries,    \* retry_count
    persist,  \* the batch at hand: kinds left, records written, events that failed
    tables,   \* each table's rows: the event a row was last written from
    acked,
    dead

tables_vars == <<event, waiting, tries, persist, tables, acked, dead>>

Emitted == {i \in Ids : event[i] # Empty}

----------------------------------------------------------------------------
(* event_sink.py: _PERSISTABLE_EVENT_TYPES *)
Persistable == {"order_state_updated", "fill_recorded", "position_updated", "balance_updated"}

(* route_event *)
RecordsOf(e) ==
    {"audit", "outbox"}
        \cup (IF e.type = "order_state_updated" /\ e.order # "absent" THEN {"order"} ELSE {})
        \cup (IF e.type = "fill_recorded" THEN {"fill"} ELSE {})
        \cup (IF e.type = "position_updated" THEN {"position"} ELSE {})
        \cup (IF e.type = "balance_updated" THEN {"account"} ELSE {})

(* _persist_batch: route_order, which has no "account". *)
RouteOrder ==
    <<"audit", "market", "orderbook", "order", "fill", "position", "allocation", "decision",
      "outbox">>

(* order_from_record: a record without what its table needs is left out. *)
Writable(kind, e) == kind = "order" => e.order # "incomplete"

(* The key a table tells its rows by: the event, the trade of a fill, the token *)
(* of a position, the order's number or its local key.                          *)
RowKey(kind, i) ==
    CASE kind \in {"audit", "outbox"} -> <<"event", i>>
      [] kind = "order" -> <<event[i].order, 0>>
      [] OTHER -> <<kind, 0>>

Keys == ({"event"} \X Ids) \cup ({"exchange", "local", "fill", "position"} \X {0})
TableKinds == {"audit", "order", "fill", "position", "outbox"}

(* _bulk_upsert of one record: the row is written over, whatever it was. *)
Upsert(rows, kind, i) ==
    IF Writable(kind, event[i]) THEN [rows EXCEPT ![kind][RowKey(kind, i)] = i] ELSE rows

(* A statement writes no row twice: it fails as a whole then. *)
Clashes(kind, items) ==
    \E m, n \in DOMAIN items :
        /\ m # n
        /\ Writable(kind, event[items[m]]) /\ Writable(kind, event[items[n]])
        /\ RowKey(kind, items[m]) = RowKey(kind, items[n])

(* The elements of a sequence that are in S, in their order: SelectSeq, in a    *)
(* form that can be reasoned about.                                             *)
Among(s, S) ==
    LET kept[n \in 0 .. Len(s)] ==
            IF n = 0 THEN <<>>
            ELSE IF s[n] \in S THEN Append(kept[n - 1], s[n]) ELSE kept[n - 1]
    IN  kept[Len(s)]

(* Events written one after the other, together or each by itself. *)
Saved(kind, items) ==
    LET after[n \in 0 .. Len(items)] ==
            IF n = 0 THEN tables ELSE Upsert(after[n - 1], kind, items[n])
    IN  after[Len(items)]

----------------------------------------------------------------------------
NoBatch == [batch |-> <<>>, left |-> <<>>, written |-> {}, failed |-> {}]

TablesInit ==
    /\ event = [i \in Ids |-> Empty]
    /\ waiting = <<>>
    /\ tries = [i \in Ids |-> 0]
    /\ persist = NoBatch
    /\ tables = [k \in TableKinds |-> [key \in Keys |-> Empty]]
    /\ acked = {}
    /\ dead = {}

(* The bus hands an event to the sink. *)
Publish(shape) ==
    /\ \E i \in Ids \ Emitted : Emitted = 1 .. i - 1 /\
         /\ event' = [event EXCEPT ![i] = shape]
         /\ waiting' = IF shape.type \in Persistable THEN Append(waiting, i) ELSE waiting
    /\ UNCHANGED <<tries, persist, tables, acked, dead>>

Needed(batch) == UNION {RecordsOf(event[i]) : i \in Range(batch)}

(* run_once: as many as wait, up to a batch; its kinds in the order of routes. *)
Take(n) ==
    /\ persist.batch = <<>>
    /\ n \in 1 .. Len(waiting) /\ n <= MaxBatch
    /\ LET batch == SubSeq(waiting, 1, n)
       IN  persist' = [NoBatch EXCEPT !.batch = batch, !.left = Among(RouteOrder, Needed(batch))]
    /\ waiting' = SubSeq(waiting, n + 1, Len(waiting))
    /\ UNCHANGED <<event, tries, tables, acked, dead>>

ItemsOf(kind) == Among(persist.batch, {i \in Emitted : kind \in RecordsOf(event[i])})

Wrote(kind, ids, failed) ==
    persist' = [persist EXCEPT !.left = Tail(@),
                               !.written = @ \cup {<<i, kind>> : i \in ids},
                               !.failed = @ \cup failed]

(* _write_kind: several records of a kind are one statement. *)
WriteTogether ==
    /\ persist.left # <<>>
    /\ LET kind == Head(persist.left)
           items == ItemsOf(kind)
       IN  /\ Len(items) > 1 /\ ~Clashes(kind, items)
           /\ tables' = Saved(kind, items)
           /\ Wrote(kind, Range(items), {})
    /\ UNCHANGED <<event, waiting, tries, acked, dead>>

(* Alone, or where the statement failed, after its commit or before: one by     *)
(* one, each of which may fail, after its commit as well.                       *)
WriteSingly(committed, refused, unanswered) ==
    /\ persist.left # <<>>
    /\ LET kind == Head(persist.left)
           items == ItemsOf(kind)
           failed == refused \cup unanswered
           stored == Among(items, Ids \ refused)
       IN  /\ committed => Len(items) > 1 /\ ~Clashes(kind, items)
           /\ failed \subseteq Range(items) /\ refused \cap unanswered = {}
           /\ tables' = Saved(kind, IF committed THEN items \o stored ELSE stored)
           /\ Wrote(kind, Range(items) \ failed, failed)
    /\ UNCHANGED <<event, waiting, tries, acked, dead>>

(* Mutant: a record written is enough for the event. *)
AllWrittenIfAny(i) == \E kind \in RecordsOf(event[i]) : <<i, kind>> \in persist.written

(* As many records written as the event has, and none of them failed. *)
AllWritten(i) ==
    /\ \A kind \in RecordsOf(event[i]) : <<i, kind>> \in persist.written
    /\ i \notin persist.failed

(* _finalize_event_outcomes: acknowledged, to be tried again, or given up. *)
Finalize ==
    /\ persist.batch # <<>> /\ persist.left = <<>>
    /\ LET ended(i) == AllWritten(i)
           again(i) == ~AllWritten(i) /\ tries[i] < MaxRetries
           retried == Among(persist.batch, {i \in Range(persist.batch) : again(i)})
       IN  /\ acked' = acked \cup {i \in Range(persist.batch) : ended(i)}
           /\ waiting' = waiting \o retried
           /\ tries' = [i \in Ids |-> IF i \in Range(retried) THEN tries[i] + 1 ELSE tries[i]]
           /\ dead' = dead \cup {i \in Range(persist.batch) : ~ended(i) /\ ~again(i)}
    /\ persist' = NoBatch
    /\ UNCHANGED <<event, tables>>

TablesNext ==
    \/ \E shape \in Shapes : Publish(shape)
    \/ \E n \in 1 .. MaxBatch : Take(n)
    \/ WriteTogether
    \/ \E committed \in BOOLEAN, refused, unanswered \in SUBSET Range(persist.batch) :
           WriteSingly(committed, refused, unanswered)
    \/ Finalize

TablesSpec == TablesInit /\ [][TablesNext]_tables_vars

----------------------------------------------------------------------------
TablesTypeOK ==
    /\ event \in [Ids -> Shapes \cup {Empty}]
    /\ Range(waiting) \subseteq Emitted
    /\ tries \in [Ids -> 0 .. MaxRetries]
    /\ tables \in [TableKinds -> [Keys -> Ids \cup {Empty}]]
    /\ acked \cup dead \subseteq Emitted

(* An event is acknowledged when all it says is in the tables: each of its      *)
(* records that is complete has its row, of this event or of another one about  *)
(* the same order, trade or token.                                              *)
AckedIsWritten ==
    \A i \in acked : \A kind \in RecordsOf(event[i]) :
        Writable(kind, event[i]) =>
            LET row == tables[kind][RowKey(kind, i)]
            IN  row # Empty /\ RowKey(kind, row) = RowKey(kind, i)

=============================================================================
