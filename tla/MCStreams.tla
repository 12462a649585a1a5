------------------------------ MODULE MCStreams ------------------------------
(***************************************************************************)
(* The three queues events go through, each on a small instance of its     *)
(* own, in one run.  The first state decides which of them moves; the      *)
(* others stand still.  The first two are extended, for their theorems.    *)
(***************************************************************************)
EXTENDS EventBus, LocalOutbox

VARIABLES
  part,
  numbered, venue, version, socket, queue, state, reader, view, breaks, base, lost    \* OrderbookStream

\* A snapshot of one market, an order event, one whose record has no writer, and
\* one whose payload the filter finds too large.
FourContents == {"snapshot", "trade", "balance", "bulk"}
KeyOfContent == [c \in FourContents |-> IF c = "snapshot" THEN "market" ELSE NoKey]

\* Two levels, so that no later change makes up for a lost one.
Book == INSTANCE OrderbookStream WITH
  worker <- reader, Levels <- {"bid", "ask"}, QueueLimit <- 3, Changes <- 6, Breaks <- 3

------------------------------------------------------------------------------
Parts == {"bus", "outbox", "book"}

InitOfParts ==
  /\ part \in Parts
  /\ Init /\ OutboxInit /\ Book!Init
  /\ part # "book" => numbered

book_vars == <<numbered, venue, version, socket, queue, state, reader, view, breaks, base, lost>>

Still(p) ==
  /\ p # "bus" => UNCHANGED vars
  /\ p # "outbox" => UNCHANGED outbox_vars
  /\ p # "book" => UNCHANGED book_vars
  /\ UNCHANGED part

NextOfParts ==
  \/ part = "bus" /\ Next /\ Still("bus")
  \/ part = "outbox" /\ OutboxNext /\ Still("outbox")
  \/ part = "book" /\ Book!Next /\ Still("book")

varsOfAll == <<part, vars, outbox_vars, book_vars>>

\* What OrderbookStream says of its tasks.
FairBook ==
  /\ WF_book_vars(part = "book" /\ Book!Connect)
  /\ WF_book_vars(part = "book" /\ Book!Handle)
  /\ WF_book_vars(part = "book" /\ Book!Fetch)
  /\ WF_book_vars(part = "book" /\ socket = "closed" /\ Book!Resubscribe)

SpecOfParts == InitOfParts /\ [][NextOfParts]_varsOfAll /\ FairBook

------------------------------------------------------------------------------
\* OrderbookStream: when the exchange falls silent the copy of the book becomes the
\* exchange's and stays it, unless the loop died of a failed request or a frame fell out
\* of the full queue and no view was taken since (ws_client.py, book_projector.py).
BookSettles == part = "book" => Book!BookSettles
=============================================================================
