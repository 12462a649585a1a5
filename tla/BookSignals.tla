----------------------------- MODULE BookSignals -----------------------------
(***************************************************************************)
(* What the program reads out of one token's order book: the book itself,  *)
(* kept from the frames of the market channel (book_projector.py,          *)
(* market_ws_adapter.py, domain/orderbook.py), the microstructure samples  *)
(* and the direction they give (orderbook_delta.py), the window of past    *)
(* books (orderbook_history_buffer.py) and the metrics computed with every *)
(* frame before its event goes out (domain/orderbook_derived.py).  Prices  *)
(* are in cents, times in seconds, values in cents; a microprice is in     *)
(* hundredths of a cent.                                                   *)
(***************************************************************************)
EXTENDS Integers, Sequences, FiniteSets, FiniteSetsExt, SequencesExt

CONSTANTS
  Prices,      \* of the levels
  Sizes,       \* of the levels that are offered
  Openings,    \* the books the exchange may open with
  Gaps,        \* seconds between two frames
  MaxFrames,
  None

VARIABLES
  venue,     \* the exchange's book, and whether its frames tell the best prices
  book,      \* the program's snapshot
  clock,
  heard,     \* how many frames were applied
  samples,   \* OrderbookDeltaStore, of this token
  history,   \* OrderbookHistoryBuffer, of this token
  derived    \* OrderbookDerivedStore, of this token

vars == <<venue, book, clock, heard, samples, history, derived>>

Floor == 1
Ceiling == 99
Whale == 5000
Targets == {10000, 50000, 100000}
Slips == {100, 500, 1000}
Windows == {2, 3, 5, 10}
KeptFor == 15
SampleWindow == 10
MaxSamples == 256
Band == 500

Sides == {"bid", "ask"}
Levels == UNION {[S -> Sizes \cup {0}] : S \in SUBSET Prices}
NoLevels == [p \in {} |-> 0]

------------------------------------------------------------------------------
(* The snapshot.                                                            *)

SizeOf(l) == FoldSet(LAMBDA p, s : s + l[p], 0, DOMAIN l)
ValueOf(l, S) == FoldSet(LAMBDA p, s : s + p * l[p], 0, S)

\* The highest price under the ceiling, or simply the highest.
BestPrice(l) ==
  LET held == DOMAIN l
      real == {p \in held : p < Ceiling}
  IN IF held = {} THEN None ELSE IF real = {} THEN Max(held) ELSE Max(real)

\* The lowest price above the floor, or simply the lowest.
WorstAsk(l) ==
  LET held == DOMAIN l
      real == {p \in held : p > Floor}
  IN IF held = {} THEN None ELSE IF real = {} THEN Min(held) ELSE Min(real)

SizeForPrice(l, p) == IF p # None /\ p \in DOMAIN l THEN l[p] ELSE None

Or(a, b) == IF a = None THEN b ELSE a

EmptySnapshot == [bids |-> NoLevels, asks |-> NoLevels, bid |-> None, ask |-> None,
                  bidSize |-> None, askSize |-> None]

\* Of a whole book: nothing of the one before is kept.
SnapshotOf(f) ==
  LET bid == Or(f.bid, BestPrice(f.bids))
      ask == Or(f.ask, WorstAsk(f.asks))
  IN [bids |-> f.bids, asks |-> f.asks, bid |-> bid, ask |-> ask,
      bidSize |-> SizeForPrice(f.bids, bid), askSize |-> SizeForPrice(f.asks, ask)]

\* A level that went away stays, with no size.
Upsert(l, p, size) == [q \in DOMAIN l \cup {p} |-> IF q = p THEN size ELSE l[q]]

\* One level changed.  The best price is the one told, else that of the levels;
\* what is still unknown stays as it was.
Applied(s, f) ==
  LET bids == IF f.side = "bid" THEN Upsert(s.bids, f.price, f.size) ELSE s.bids
      asks == IF f.side = "ask" THEN Upsert(s.asks, f.price, f.size) ELSE s.asks
      bid  == IF f.side = "bid" THEN Or(f.bid, BestPrice(bids)) ELSE f.bid
      ask  == IF f.side = "ask" THEN Or(f.ask, WorstAsk(asks)) ELSE f.ask
      bidSize == IF f.side = "bid" THEN SizeForPrice(bids, bid) ELSE None
      askSize == IF f.side = "ask" THEN SizeForPrice(asks, ask) ELSE None
  IN [bids |-> bids, asks |-> asks, bid |-> Or(bid, s.bid), ask |-> Or(ask, s.ask),
      bidSize |-> Or(bidSize, s.bidSize), askSize |-> Or(askSize, s.askSize)]

BidIsReal(s) == DOMAIN s.bids # {} /\ s.bid # None /\ s.bid > Floor
AskIsReal(s) == DOMAIN s.asks # {} /\ s.ask # None /\ s.ask < Ceiling

\* The best prices weighted by the size on the other side; of a book with one
\* real side, the price of that side.
Microprice(s) ==
  LET real == <<BidIsReal(s), AskIsReal(s)>>
      known == s.bidSize # None /\ s.askSize # None
      total == s.bidSize + s.askSize
      mid == (100 * (s.bid + s.ask)) \div 2
      weighted == (100 * (s.ask * s.bidSize + s.bid * s.askSize)) \div total
  IN IF real = <<FALSE, FALSE>> THEN None
     ELSE IF real = <<FALSE, TRUE>> THEN 100 * s.ask
     ELSE IF real = <<TRUE, FALSE>> THEN 100 * s.bid
     ELSE IF ~known THEN mid
     ELSE IF total = 0 THEN mid ELSE weighted

------------------------------------------------------------------------------
(* The samples and the direction they give.                                 *)

RealDepth(s, l) ==
  LET micro == Microprice(s)
  IN IF micro = None THEN None
     ELSE ValueOf(l, {p \in DOMAIN l : 100 * p >= micro - Band /\ 100 * p <= micro + Band})

SampleOf(s, t) ==
  [at |-> t, bid |-> s.bid, ask |-> s.ask, bidSize |-> s.bidSize, askSize |-> s.askSize,
   micro |-> Microprice(s), bidDepth |-> RealDepth(s, s.bids), askDepth |-> RealDepth(s, s.asks)]

SamplesEqual(a, b) == [a EXCEPT !.at = 0] = [b EXCEPT !.at = 0]

Observed(buf, s, t) ==
  LET sample == SampleOf(s, t)
      full == Append(buf, sample)
  IN IF buf # <<>> /\ SamplesEqual(Last(buf), sample) THEN buf
     ELSE IF Len(full) > MaxSamples THEN Tail(full) ELSE full

Delta(a, b) == IF a = None \/ b = None THEN None ELSE b - a

\* In hundredths of a cent; the microprice first, the best prices without it.
MidDelta(first, last) ==
  LET micro == Delta(first.micro, last.micro)
      bid == Delta(first.bid, last.bid)
      ask == Delta(first.ask, last.ask)
  IN IF micro # None THEN micro
     ELSE IF bid # None /\ ask # None THEN 50 * (bid + ask)
     ELSE IF bid # None THEN 100 * bid
     ELSE IF ask # None THEN 100 * ask ELSE None

\* The sign of a signal that reaches the threshold of a vote, a fifth of its range.
Vote(x, threshold) == IF x >= threshold THEN 1 ELSE IF x <= -threshold THEN -1 ELSE 0

ScoreVote(mid) == IF mid = None THEN 0 ELSE Vote(mid, 50)
MomentumVote(mid, elapsed) == IF mid = None THEN 0 ELSE Vote(mid, 10 * elapsed)

AbsOf(x) == IF x < 0 THEN -x ELSE x

\* Asks that were eaten against bids that were eaten, near the microprice.
FlowVote(first, last) ==
  LET b == Or(Delta(first.bidDepth, last.bidDepth), 0)
      a == Or(Delta(first.askDepth, last.askDepth), 0)
      moved == AbsOf(a) + AbsOf(b)
  IN IF moved = 0 THEN 0 ELSE Vote(5 * (b - a), moved)

\* Two votes of three, or that of the score when nothing speaks against it.
Label(score, momentum, flow) ==
  LET votes(v) == Cardinality({i \in 1 .. 3 : <<score, momentum, flow>>[i] = v})
  IN IF votes(1) >= 2 THEN "yes" ELSE IF votes(-1) >= 2 THEN "no"
     ELSE IF score = 1 /\ votes(-1) = 0 THEN "yes"
     ELSE IF score = -1 /\ votes(1) = 0 THEN "no" ELSE "neutral"

\* In twentieths: half as much when one side was never seen.
Confidence(seen) ==
  LET both == \E i \in DOMAIN seen : seen[i].bid # None
      asked == \E i \in DOMAIN seen : seen[i].ask # None
  IN Min({Len(seen), 10}) * (IF both /\ asked THEN 2 ELSE 1)

ComputeSignal(seen) ==
  LET first == Head(seen)
      last == Last(seen)
      elapsed == Max({last.at - first.at, 1})
      mid == MidDelta(first, last)
  IN [moved |-> mid, confidence |-> Confidence(seen),
      label |-> Label(ScoreVote(mid), MomentumVote(mid, elapsed), FlowVote(first, last))]

DirectionSignal(buf, now) ==
  LET seen == SelectSeq(buf, LAMBDA s : s.at >= now - SampleWindow)
  IN IF Len(seen) < 2 THEN None ELSE ComputeSignal(seen)

------------------------------------------------------------------------------
(* The window of past books.                                                *)

Recorded(buf, s, t) ==
  SelectSeq(Append(buf, [at |-> t, book |-> s]), LAMBDA h : h.at >= t - KeptFor)

\* Mutant: the first sample that is not before the wanted time.
FindSnapshotNotBefore(h, now, ago) ==
  LET i == CHOOSE i \in DOMAIN h : h[i].at >= now - ago /\ \A j \in 1 .. i - 1 : h[j].at < now - ago
  IN h[i]

\* From the oldest on, as long as each is nearer than the one before.
FindSnapshotAt(h, now, ago) ==
  LET far(i) == AbsOf(h[i].at - (now - ago))
      i == CHOOSE i \in DOMAIN h :
             /\ \A j \in 2 .. i : far(j) < far(j - 1)
             /\ i < Len(h) => far(i + 1) >= far(i)
  IN h[i]

Whales(l) == Cardinality({p \in DOMAIN l : p * l[p] >= Whale})

WindowDelta(now, h, t, ago) ==
  LET past == FindSnapshotAt(h, t, ago)
  IN [from |-> past.at,
      bids |-> SizeOf(now.bids) - SizeOf(past.book.bids),
      asks |-> SizeOf(now.asks) - SizeOf(past.book.asks),
      whales |-> Whales(now.bids) - Whales(past.book.bids)]

Mids(h) ==
  LET both == SelectSeq(h, LAMBDA x : x.book.bid # None /\ x.book.ask # None)
  IN [i \in DOMAIN both |-> both[i].book.bid + both[i].book.ask]

HistoryStats(h) ==
  LET m == Mids(h)
  IN [count |-> Len(h),
      change |-> IF Len(h) < 2 \/ Len(m) < 2 THEN None ELSE Last(m) - Head(m),
      reversals |-> IF Len(h) < 2 THEN 0
                    ELSE Cardinality({i \in 3 .. Len(m) : (m[i - 1] - m[i - 2]) * (m[i] - m[i - 1]) < 0})]

------------------------------------------------------------------------------
(* The metrics of one book.                                                 *)

Ascending(l) == SetToSortSeq(DOMAIN l, <)
Descending(l) == SetToSortSeq(DOMAIN l, >)

\* The price at which half the size is reached, from the best one on.
MedianPrice(l, sorted) ==
  LET step(acc, p) ==
        IF acc.at # None THEN acc
        ELSE [size |-> acc.size + l[p], at |-> IF 2 * (acc.size + l[p]) >= SizeOf(l) THEN p ELSE None]
  IN FoldLeft(step, [size |-> 0, at |-> None], sorted).at

\* A purchase of the target's value, level by level.
PriceImpact(l, target) ==
  LET step(acc, p) ==
        IF acc.filled THEN acc
        ELSE IF acc.spent + p * l[p] >= target
             THEN [spent |-> target, worst |-> p, filled |-> TRUE]
             ELSE [spent |-> acc.spent + p * l[p], worst |-> p, filled |-> FALSE]
  IN FoldLeft(step, [spent |-> 0, worst |-> None, filled |-> FALSE], Ascending(l))

\* What can be bought without going further than so many basis points.
FillableWithin(l, best, slip) ==
  LET step(acc, p) ==
        IF acc.over \/ 10000 * p > best * (10000 + slip) THEN [acc EXCEPT !.over = TRUE]
        ELSE [acc EXCEPT !.usdc = @ + p * l[p]]
  IN IF best = None THEN 0
     ELSE FoldLeft(step, [usdc |-> 0, over |-> FALSE], Ascending(l)).usdc

\* Each part of the score between nothing and its full mark, in thousandths.
Graded(x, good, bad, mark) ==
  IF x <= good THEN mark ELSE IF x >= bad THEN 0 ELSE (mark * (bad - x)) \div (bad - good)

LiquidityTier(s) ==
  LET both == s.bid # None /\ s.ask # None
      bidSize == Or(s.bidSize, 0)
      askSize == Or(s.askSize, 0)
      spread == IF both THEN Graded((20000 * (s.ask - s.bid)) \div (s.ask + s.bid), 100, 500, 500) ELSE 0
      quoted == (IF s.bid = None THEN 0 ELSE s.bid * bidSize) + (IF s.ask = None THEN 0 ELSE s.ask * askSize)
      depth == IF quoted >= 50000 THEN 300 ELSE (300 * quoted) \div 50000
      balance == IF bidSize + askSize = 0 THEN 0
                 ELSE Graded((1000 * AbsOf(bidSize - askSize)) \div (bidSize + askSize), 200, 800, 200)
      score == spread + depth + balance
  IN IF score >= 700 THEN "high" ELSE IF score >= 400 THEN "medium"
     ELSE IF score > 0 THEN "low" ELSE "dead"

ComputeDerived(s, h, direction) ==
  [of |-> s, direction |-> direction, tier |-> LiquidityTier(s), stats |-> HistoryStats(h),
   bidMedian |-> MedianPrice(s.bids, Descending(s.bids)),
   askMedian |-> MedianPrice(s.asks, Ascending(s.asks)),
   impact |-> [t \in Targets |-> PriceImpact(s.asks, t)],
   fillable |-> [b \in Slips |-> FillableWithin(s.asks, s.ask, b)],
   windows |-> [w \in Windows |-> WindowDelta(s, h, Last(h).at, w)]]

------------------------------------------------------------------------------
TypeOK ==
  /\ {venue.bids, venue.asks, book.bids, book.asks} \subseteq Levels
  /\ {book.bid, book.ask} \subseteq Prices \cup {None}
  /\ heard \in 0 .. MaxFrames /\ clock \in Nat
  /\ Len(samples) <= MaxSamples /\ Len(history) <= heard
  /\ derived # None => derived.tier \in {"high", "medium", "low", "dead"}

Init ==
  /\ venue \in {[bids |-> o.bids, asks |-> o.asks, tells |-> t] : o \in Openings, t \in BOOLEAN}
  /\ book = EmptySnapshot /\ clock = 0 /\ heard = 0
  /\ samples = <<>> /\ history = <<>> /\ derived = None

\* Every frame: the sample, the window, the metrics, and then the event.
EmitSnapshot(s, t) ==
  /\ heard < MaxFrames /\ heard' = heard + 1
  /\ book' = s /\ clock' = t
  /\ samples' = Observed(samples, s, t)
  /\ history' = Recorded(history, s, t)
  /\ derived' = ComputeDerived(s, history', DirectionSignal(samples', t))

\* The best prices a frame carries, if the exchange's frames carry them.
Told(v) == [bid |-> IF v.tells /\ DOMAIN v.bids # {} THEN Max(DOMAIN v.bids) ELSE None,
            ask |-> IF v.tells /\ DOMAIN v.asks # {} THEN Min(DOMAIN v.asks) ELSE None]

BookFrame(gap) ==
  /\ EmitSnapshot(SnapshotOf([bids |-> venue.bids, asks |-> venue.asks, bid |-> None, ask |-> None]), clock + gap)
  /\ UNCHANGED venue

\* On the exchange a level without size is gone, and bids stay under asks.
Changed(l, p, size) ==
  IF size = 0 THEN [q \in DOMAIN l \ {p} |-> l[q]] ELSE Upsert(l, p, size)

Crossed(v) == \E b \in DOMAIN v.bids, a \in DOMAIN v.asks : b >= a

PriceChange(side, p, size, gap) ==
  LET v == IF side = "bid" THEN [venue EXCEPT !.bids = Changed(@, p, size)]
           ELSE [venue EXCEPT !.asks = Changed(@, p, size)]
  IN /\ heard > 0 /\ v # venue /\ ~Crossed(v)
     /\ venue' = v
     /\ EmitSnapshot(Applied(book, [side |-> side, price |-> p, size |-> size,
                                    bid |-> Told(v).bid, ask |-> Told(v).ask]), clock + gap)

\* The market is taken out of the registry.
EvictMarket ==
  /\ derived # None /\ derived' = None
  /\ UNCHANGED <<venue, book, clock, heard, samples, history>>

Next ==
  \/ \E gap \in Gaps : BookFrame(gap)
  \/ \E side \in Sides, p \in Prices, size \in Sizes \cup {0}, gap \in Gaps : PriceChange(side, p, size, gap)
  \/ EvictMarket

Spec == Init /\ [][Next]_vars

------------------------------------------------------------------------------
\* The two sides of a purchase agree: what can be bought within so many basis
\* points covers a target exactly when the purchase of the target is filled and
\* its worst price stays within them.  (_price_impact, _fillable_within)
SweepAgrees ==
  derived # None => \A t \in Targets, b \in Slips :
    derived.fillable[b] >= t <=>
      /\ derived.of.ask # None /\ derived.impact[t].filled
      /\ 10000 * derived.impact[t].worst <= derived.of.ask * (10000 + b)

\* The past book of a window is the one nearest to the window's start.  (_find_snapshot_at)
WindowIsNearest ==
  derived # None => \A w \in Windows, i \in DOMAIN history :
    AbsOf(derived.windows[w].from - (clock - w)) <= AbsOf(history[i].at - (clock - w))

\* The metrics of a book agree with each other and with the window they are read
\* from, whatever frames made the book and however they were spaced.
ReadingsAgree == SweepAgrees /\ WindowIsNearest

\* A direction is never given against the move of the price it is read from,
\* whatever the depths around it did.  (_composite_label, _direction_score,
\* _price_momentum, _flow_imbalance_from_real_depth)
LabelFollowsPrice ==
  derived # None =>
    LET d == derived.direction
    IN d # None => /\ d.label = "yes" => d.moved # None /\ d.moved > 0
                   /\ d.label = "no" => d.moved # None /\ d.moved < 0
=============================================================================
