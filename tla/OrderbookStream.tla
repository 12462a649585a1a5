-------------------------- MODULE OrderbookStream --------------------------
(***************************************************************************)
(* The market channel for one token: the exchange's book, the socket with  *)
(* its subscriptions, the bounded frame queue between socket and worker,   *)
(* and the worker that keeps a copy of the book, looks for gaps in the     *)
(* numbering of the frames and fetches a snapshot when it finds one.       *)
(*                                                                         *)
(* A level holds the number of the change that wrote it last, in place of  *)
(* its size. The exchange numbers its frames or it does not.               *)
(***************************************************************************)
EXTENDS Integers, Sequences

CONSTANTS
    Levels,
    QueueLimit,  \* maxsize of the frame queue
    Changes,     \* bound: changes of the book at the exchange
    Breaks       \* bound: times the connection is lost, closed or given up

VARIABLES
    numbered,  \* whether the exchange numbers its frames
    venue,     \* the book at the exchange
    version,   \* number of its last change
    socket,    \* the stream task
    queue,     \* frames between the stream task and the worker
    state,     \* BookState: the copy, last_sequence, needs_rest_snapshot
    worker,    \* what the reading loop is doing
    view,      \* the REST answer on its way
    breaks,    \* how often the connection broke
    base,      \* history: what the worker counts from
    lost       \* history: a frame was dropped that no later view makes up for

venue_vars == <<numbered, venue, version>>
stream_vars == <<socket, queue, breaks>>
vars == <<numbered, venue, version, socket, queue, state, worker, view, breaks, base, lost>>

Books == [Levels -> 0..Changes]
NoSequence == -1
Number(n) == IF numbered THEN n ELSE NoSequence

(* A whole book, or one level of it. *)
BookFrame == [levels |-> Levels, book |-> venue, number |-> Number(version)]
ChangeFrame(l, n) == [levels |-> {l}, book |-> [k \in Levels |-> n], number |-> Number(n)]
IsBook(f) == f.levels = Levels

----------------------------------------------------------------------------
(* The stream task *)

(* _offer_to_ws_queue drops the oldest frame when the queue is full. *)
Offer(f) ==
    IF Len(queue) < QueueLimit
    THEN queue' = Append(queue, f) /\ UNCHANGED lost
    ELSE queue' = Append(Tail(queue), f) /\ lost' = TRUE

Connect ==
    /\ socket = "connecting"
    /\ socket' = "up"
    /\ Offer(BookFrame)
    /\ UNCHANGED <<venue_vars, state, worker, view, breaks, base>>

(* A broken connection is opened again; a closed one ends the stream task. *)
Break ==
    /\ breaks < Breaks
    /\ socket = "up"
    /\ socket' \in {"connecting", "closed"}
    /\ breaks' = breaks + 1
    /\ UNCHANGED <<venue_vars, queue, state, worker, view, base, lost>>

(* The reading loop, between two frames, finds other tokens to subscribe or    *)
(* the stream task ended: the frames in the queue are dropped.                 *)
Resubscribe ==
    /\ worker = "reading"
    /\ \/ socket = "closed" /\ UNCHANGED breaks
       \/ socket # "closed" /\ breaks < Breaks /\ breaks' = breaks + 1
    /\ socket' = "connecting"
    /\ queue' = <<>>
    /\ UNCHANGED <<venue_vars, state, worker, view, base, lost>>

----------------------------------------------------------------------------
(* The exchange *)

Change(l) ==
    /\ version < Changes
    /\ version' = version + 1
    /\ venue' = [venue EXCEPT ![l] = version + 1]
    /\ IF socket = "up" THEN Offer(ChangeFrame(l, version + 1)) ELSE UNCHANGED <<queue, lost>>
    /\ UNCHANGED <<numbered, socket, state, worker, view, breaks, base>>

----------------------------------------------------------------------------
(* The worker *)

(* sequence_gap_detected *)
Gap(n) == n # NoSequence /\ state.last # NoSequence /\ n > state.last + 1

(* apply_book_message, apply_price_message *)
Applied(f) ==
    [book |-> [l \in Levels |-> IF l \in f.levels THEN f.book[l] ELSE state.book[l]],
     last |-> IF f.number # NoSequence THEN f.number ELSE state.last,
     needs |-> FALSE]

(* handle_message: a gap is looked for before the kind of the frame, so the    *)
(* frame that shows it is dropped, a whole book too.                           *)
Handle ==
    /\ worker = "reading"
    /\ queue # <<>>
    /\ queue' = Tail(queue)
    /\ LET f == Head(queue)
       IN  IF Gap(f.number)
           THEN /\ state' = [state EXCEPT !.needs = TRUE]
                /\ worker' = "asking"
                /\ UNCHANGED <<base, lost>>
           ELSE IF state.needs /\ ~IsBook(f)
           THEN UNCHANGED <<state, worker, base, lost>>
           ELSE /\ state' = Applied(f)
                /\ base' = IF IsBook(f) THEN "book" ELSE base
                /\ lost' = (lost /\ ~IsBook(f))
                /\ UNCHANGED worker
    /\ UNCHANGED <<venue_vars, socket, view, breaks>>

(* The snapshot is taken at the exchange some time after it was asked for and  *)
(* comes back later still.                                                     *)
Snapshot ==
    /\ worker = "asking"
    /\ worker' = "answered"
    /\ view' = {venue}
    /\ lost' = FALSE
    /\ UNCHANGED <<venue_vars, stream_vars, state, base>>

(* Mutant: the snapshot leaves the state waiting for one. *)
RestStillNeeded(book) == [book |-> book, last |-> NoSequence, needs |-> TRUE]

(* rest_state: the loader's snapshot is not a mapping and carries no number. *)
RestState(book) == [book |-> book, last |-> NoSequence, needs |-> FALSE]

ApplySnapshot ==
    /\ worker = "answered"
    /\ \E book \in view : state' = RestState(book)
    /\ view' = {}
    /\ worker' = "reading"
    /\ base' = "rest"
    /\ UNCHANGED <<venue_vars, stream_vars, lost>>

(* A failing request goes through handle_message and run_market_ws to the     *)
(* supervised loop, which ends; the stream task goes on.                      *)
SnapshotFails ==
    /\ worker = "asking"
    /\ worker' = "dead"
    /\ UNCHANGED <<venue_vars, stream_vars, state, view, base, lost>>

----------------------------------------------------------------------------
Init ==
    /\ numbered \in BOOLEAN
    /\ venue = [l \in Levels |-> 0]
    /\ version = 0
    /\ socket = "connecting"
    /\ queue = <<>>
    /\ state = [book |-> venue, last |-> NoSequence, needs |-> FALSE]
    /\ worker = "reading"
    /\ view = {}
    /\ breaks = 0
    /\ base = "nothing"
    /\ lost = FALSE

Fetch == Snapshot \/ SnapshotFails \/ ApplySnapshot

Next ==
    \/ Connect \/ Break \/ Resubscribe
    \/ \E l \in Levels : Change(l)
    \/ Handle \/ Fetch

(* The stream task connects again after its delay, the loop takes the next     *)
(* frame, a request returns by its time limit, and an ended stream task is     *)
(* noticed within a second.                                                    *)
Fairness ==
    /\ WF_vars(Connect)
    /\ WF_vars(Handle)
    /\ WF_vars(Fetch)
    /\ WF_vars(socket = "closed" /\ Resubscribe)

Spec == Init /\ [][Next]_vars /\ Fairness

----------------------------------------------------------------------------
(* Properties *)

Frames == [levels : SUBSET Levels, book : Books, number : {NoSequence} \cup 0..Changes]

TypeOK ==
    /\ numbered \in BOOLEAN
    /\ venue \in Books
    /\ version \in 0..Changes
    /\ socket \in {"connecting", "up", "closed"}
    /\ queue \in Seq(Frames) /\ Len(queue) <= QueueLimit
    /\ state \in [book : Books, last : {NoSequence} \cup 0..Changes, needs : BOOLEAN]
    /\ worker \in {"reading", "asking", "answered", "dead"}
    /\ view \subseteq Books
    /\ breaks \in 0..Breaks
    /\ base \in {"nothing", "book", "rest"}
    /\ lost \in BOOLEAN

(* When the exchange falls silent the copy becomes its book and stays it,      *)
(* though frames older than a snapshot are applied after it: unless the loop   *)
(* has died of a failed request, or a frame fell out of the full queue and no  *)
(* view was taken since.                                                       *)
BookSettles == <>[](state.book = venue \/ worker = "dead" \/ lost)

=============================================================================
