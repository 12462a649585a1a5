----------------------------- MODULE EventStream -----------------------------
(***************************************************************************)
(* Events pushed to onlookers (api/routes/stream.py, api/ws/publisher.py,  *)
(* api/routes/ws_operator.py).  The event bus calls two listeners for each *)
(* event it broadcasts: the registry of the server-sent streams, which     *)
(* puts it into a bounded queue of every stream, and the publisher of the  *)
(* web sockets, which puts it into one bounded queue that a task drains,   *)
(* sending one event at a time to all the sockets of its topic.  Events    *)
(* are numbered; of an event only its number and its topic are kept.       *)
(***************************************************************************)
EXTENDS Integers, Sequences, FiniteSets

CONSTANTS
  Streams,      \* clients of the server-sent streams
  Sockets,      \* clients of the web sockets
  Topics,
  TopicOf,      \* the topic of each event, a sequence
  Capacity,     \* LISTENER_QUEUE_MAXSIZE, _QUEUE_MAX_SIZE
  SoftCap,
  None

ASSUME ConstantsAssumption ==
  /\ IsFiniteSet(Streams)
  /\ TopicOf \in Seq(Topics)
  /\ Capacity \in Nat \ {0}
  /\ SoftCap \in Nat
  /\ None \notin Nat

VARIABLES
  published,  \* how many events were broadcast
  stream,     \* per client: its listener, and what became of the events it wants
  hub,        \* the publisher: its queue, the event it sends, whom it waits for
  topics,     \* per socket: the topics it is subscribed to
  pushed      \* per socket: the last event it was sent

push_vars == <<published, stream, hub, topics, pushed>>

MaxEvents == Len(TopicOf)
LagMarker == 0

\* wants, queue, lag, dropped: the listener.  got: the last event the client has read,
\* lost: those it will never read, told: has it read a marker since it is behind.
NoListener == [on |-> FALSE, wants |-> {}, queue |-> <<>>, lag |-> FALSE, dropped |-> 0,
               got |-> 0, lost |-> 0, told |-> FALSE]

Listening == {c \in Streams : stream[c].on}

PushTypeOK ==
  /\ published \in 0 .. MaxEvents
  /\ \A c \in Streams :
       /\ stream[c].on \in BOOLEAN /\ stream[c].lag \in BOOLEAN /\ stream[c].told \in BOOLEAN
       /\ Len(stream[c].queue) <= Capacity
       /\ {stream[c].dropped, stream[c].lost, stream[c].got} \subseteq Nat
  /\ Cardinality(Listening) <= SoftCap
  /\ Len(hub.queue) <= Capacity /\ hub.waits \subseteq Sockets
  /\ topics \in [Sockets -> SUBSET Topics]
  /\ pushed \in [Sockets -> 0 .. MaxEvents]

PushInit ==
  /\ published = 0
  /\ stream = [c \in Streams |-> NoListener]
  /\ hub = [queue |-> <<>>, sends |-> None, waits |-> {}]
  /\ topics = [w \in Sockets |-> {}]
  /\ pushed = [w \in Sockets |-> 0]

------------------------------------------------------------------------------
(* The server-sent streams.                                                 *)

\* The cap is looked at before the listener is registered, without a wait between.
Register(c, types) ==
  /\ ~stream[c].on /\ Cardinality(Listening) < SoftCap
  /\ stream' = [stream EXCEPT ![c].on = TRUE, ![c].wants = types]
  /\ UNCHANGED <<published, hub, topics, pushed>>

\* What goes out at the head is lost, unless it is a marker; both are counted.
DropOldest(l) ==
  [l EXCEPT !.queue = Tail(@), !.dropped = @ + 1,
            !.lost = @ + (IF Head(l.queue) = LagMarker THEN 0 ELSE 1)]

\* One marker for a run of overflows: it takes the place that was made.
MarkLag(l) ==
  IF l.lag THEN l ELSE [l EXCEPT !.lag = TRUE, !.queue = Append(@, LagMarker)]

PutOrGiveUp(l, e) ==
  IF Len(l.queue) < Capacity THEN [l EXCEPT !.queue = Append(@, e)]
  ELSE [l EXCEPT !.lost = @ + 1, !.dropped = @ + 1]

EventMatches(l, e) == l.on /\ TopicOf[e] \in l.wants

Offer(l, e) ==
  IF ~EventMatches(l, e) THEN l
  ELSE IF Len(l.queue) < Capacity THEN [l EXCEPT !.queue = Append(@, e)]
  ELSE PutOrGiveUp(MarkLag(DropOldest(l)), e)

Read(c) ==
  /\ stream[c].on /\ stream[c].queue # <<>>
  /\ LET item == Head(stream[c].queue)
         rest == [stream[c] EXCEPT !.queue = Tail(@)]
     IN stream' = [stream EXCEPT ![c] =
          IF item = LagMarker THEN [rest EXCEPT !.lag = FALSE, !.told = TRUE]
          ELSE [rest EXCEPT !.got = item]]
  /\ UNCHANGED <<published, hub, topics, pushed>>

\* The client is gone: the listener is taken out and its queue emptied.
Unregister(c) ==
  /\ stream[c].on
  /\ stream' = [stream EXCEPT ![c] = NoListener]
  /\ UNCHANGED <<published, hub, topics, pushed>>

------------------------------------------------------------------------------
(* The web sockets.                                                         *)

\* Mutant: the publisher's queue puts the new event in the place of the oldest.
EnqueuedInPlace(q, e) ==
  IF Len(q) < Capacity THEN Append(q, e) ELSE [q EXCEPT ![1] = e]

\* Full: the oldest goes, and nobody is told.
Enqueued(q, e) == Append(IF Len(q) < Capacity THEN q ELSE Tail(q), e)

Subscribe(w, t) ==
  /\ t \notin topics[w]
  /\ topics' = [topics EXCEPT ![w] = @ \cup {t}]
  /\ UNCHANGED <<published, stream, hub, pushed>>

Unsubscribe(w, t) ==
  /\ t \in topics[w]
  /\ topics' = [topics EXCEPT ![w] = @ \ {t}]
  /\ UNCHANGED <<published, stream, hub, pushed>>

\* The next event is sent to all the sockets that have its topic now.
Drain ==
  /\ hub.sends = None /\ hub.queue # <<>>
  /\ LET e == Head(hub.queue)
         to == {w \in Sockets : TopicOf[e] \in topics[w]}
     IN hub' = [queue |-> Tail(hub.queue), sends |-> IF to = {} THEN None ELSE e, waits |-> to]
  /\ UNCHANGED <<published, stream, topics, pushed>>

\* The next one waits until every one of them has been sent this one.
Answered(w) == IF hub.waits = {w} THEN [hub EXCEPT !.sends = None, !.waits = {}]
               ELSE [hub EXCEPT !.waits = @ \ {w}]

Send(w) ==
  /\ w \in hub.waits
  /\ pushed' = [pushed EXCEPT ![w] = hub.sends]
  /\ hub' = Answered(w)
  /\ UNCHANGED <<published, stream, topics>>

\* A socket that fails loses all its topics.
SendFails(w) ==
  /\ w \in hub.waits
  /\ topics' = [topics EXCEPT ![w] = {}]
  /\ hub' = Answered(w)
  /\ UNCHANGED <<published, stream, pushed>>

------------------------------------------------------------------------------
Broadcast ==
  /\ published < MaxEvents
  /\ published' = published + 1
  /\ stream' = [c \in Streams |-> Offer(stream[c], published')]
  /\ hub' = [hub EXCEPT !.queue = Enqueued(@, published')]
  /\ UNCHANGED <<topics, pushed>>

PushNext ==
  \/ Broadcast
  \/ \E c \in Streams, types \in SUBSET Topics \ {{}} : Register(c, types)
  \/ \E c \in Streams : Read(c) \/ Unregister(c)
  \/ \E w \in Sockets : Send(w) \/ SendFails(w) \/ \E t \in Topics : Subscribe(w, t) \/ Unsubscribe(w, t)
  \/ Drain

PushSpec == PushInit /\ [][PushNext]_push_vars

------------------------------------------------------------------------------
\* Whatever the client of a stream will never see is in the count of dropped events it
\* is given, through overflows and late readers.  (broadcast, _drop_oldest)
LossIsCounted == \A c \in Streams : stream[c].lost <= stream[c].dropped

\* What a socket is sent, it is sent in the order of publishing and once, through
\* overflows, sends that fail and subscriptions that change.  (_on_event, _drain_loop)
PushedInOrder == [][\A w \in Sockets : pushed'[w] # pushed[w] => pushed'[w] > pushed[w]]_pushed

=============================================================================
