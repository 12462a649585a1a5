----------------------------- MODULE MCFunctions -----------------------------
(***************************************************************************)
(* Ten modules that share nothing, each on a small instance of its own,    *)
(* in one run.  The first state decides which of them the behaviour is of; *)
(* the others stand still.  The modules that have theorems are extended;   *)
(* the others are instances, with a variable renamed where two have the    *)
(* name.                                                                   *)
(***************************************************************************)
EXTENDS EventStream, MarketIngest, EntrySizing, TLC

CONSTANT NewOrders  \* OrderControl's

VARIABLES
  part,
  orders, held, ledger, caller, blind, skipped,             \* OrderControl
  sport, at, n, min, score, ending, how, left,              \* MatchFeeds
  market, way, second, now, asked, noticed,                 \* MarketSides
  venue, trades, style, answer, feed, open, fills,          \* OrderAnswers
  match, bestOf, stage, points, kept, games, total, said,   \* MathProb
  exchange, book, time, heard, samples, history, derived,   \* BookSignals
  request, books, moves, scan, rejected, drill              \* PaperDrill

FourEvents == <<"portfolio", "candidates", "candidates", "portfolio">>

\* A deep book near the middle, one with a thin top, a sure thing, one nobody bids
\* for, one that is nearly empty.
FiveOffers ==
  {[ask |-> 45, bid |-> TRUE, top |-> 60, depth |-> 2000],
   [ask |-> 50, bid |-> TRUE, top |-> 2000, depth |-> 2000],
   [ask |-> 88, bid |-> TRUE, top |-> 2000, depth |-> 5000],
   [ask |-> 20, bid |-> FALSE, top |-> 2000, depth |-> 2000],
   [ask |-> 50, bid |-> TRUE, top |-> 50, depth |-> 120]}

\* A fair line, one with a draw and an outcome suspended, a lopsided one, one without
\* its shares.
FourLines ==
  {[home |-> 53, away |-> 53, draw |-> 0, suspended |-> {}, fair |-> TRUE],
   [home |-> 60, away |-> 30, draw |-> 15, suspended |-> {"away"}, fair |-> TRUE],
   [home |-> 20, away |-> 84, draw |-> 0, suspended |-> {}, fair |-> TRUE],
   [home |-> 53, away |-> 56, draw |-> 0, suspended |-> {}, fair |-> FALSE]}

ThreeForecasts ==
  {[home |-> 0, away |-> 0], [home |-> 70, away |-> 30], [home |-> 0, away |-> 100]}

\* No module names one of these values, orders them or chooses among them.
Interchangeable == Permutations(NewOrders) \cup Permutations(Sockets)

------------------------------------------------------------------------------
Control == INSTANCE OrderControl WITH
  account <- ledger, RestingBuys <- {"b1"}, RestingSells <- {"s1"}, Placed <- {{"b1"}, {"s1"}},
  Operators <- {"o1"}, Planner <- "reconcile", Holding <- 1, MaxSize <- 2, BulkLimit <- 2

Feeds == INSTANCE MatchFeeds WITH
  MaxScore <- 2,
  Sports <- {"soccer", "handball", "rugby", "basketball", "american-football", "tennis", "volleyball",
             "table-tennis", "esports", "boxing", "mma", "golf", "motorsport", "horse_racing",
             "hockey", "baseball"}

Matching == INSTANCE MarketSides WITH
  seen <- noticed, SportCodes <- {"baseball", "ice-hockey", "tennis", "esports"},
  Schedules <- {6, 12}, First <- 4, Last <- 13

Answers == INSTANCE OrderAnswers WITH
  Buys <- {"b1"}, Sells <- {"s1"}, Strangers <- {"x1"}, Size <- 2, Limit <- 2, MaxTrades <- 2, MaxFeed <- 2

Prob == INSTANCE MathProb WITH
  sport <- match, score <- points, Unknown <- None,
  Sports <- {"soccer", "basketball", "hockey", "baseball", "tennis", "cricket"},
  MaxScore <- 2, MaxHalves <- 20, GamesCounted <- 13, Line <- 3, GamesLine <- 25, Handicap <- 3

\* A book near the middle, one with a whale on each side, and one without bids.
Signals == INSTANCE BookSignals WITH
  venue <- exchange, clock <- time,
  Prices <- {1, 40, 42, 44}, Sizes <- {100, 2000}, Gaps <- {3, 7}, MaxFrames <- 3,
  Openings <- {[bids |-> [p \in {40} |-> 100], asks |-> [p \in {42, 44} |-> 2000]],
               [bids |-> [p \in {1, 40} |-> 2000], asks |-> [p \in {44} |-> 100]],
               [bids |-> [p \in {} |-> 0], asks |-> [p \in {42} |-> 2000]]}

Drill == INSTANCE PaperDrill WITH
  Registry <- <<<<"t1", "t2">>, <<"t3">>>>, RestBudget <- 2, SampleLimit <- 2, MaxMoves <- 1,
  Faces <- {[family |-> "single_game", status |-> "live", reason |-> "stale_game_state"],
            [family |-> "single_game", status |-> "unknown", reason |-> "missing_live_game_state"],
            [family |-> "", status |-> "", reason |-> "other"]}
------------------------------------------------------------------------------
Parts == {"events", "control", "ingest", "sizing", "feeds", "sides", "answers",
          "prob", "signals", "drill"}

\* A part that is not chosen has no state; the modules extended stay in their first.
InitOfPart ==
  /\ part \in Parts
  /\ PushInit /\ IngestInit /\ SizingInit
  /\ part # "sizing" => account.cash = Min(Purses)
  /\ IF part = "control" THEN Control!Init
     ELSE /\ orders = None /\ held = None /\ ledger = None /\ caller = None /\ blind = None
          /\ skipped = None
  /\ IF part = "feeds" THEN Feeds!Init
     ELSE /\ sport = None /\ at = None /\ n = None /\ min = None /\ score = None /\ ending = None
          /\ how = None /\ left = None
  /\ IF part = "sides" THEN Matching!Init
     ELSE /\ market = None /\ way = None /\ second = None /\ now = None /\ asked = None
          /\ noticed = None
  /\ IF part = "answers" THEN Answers!Init
     ELSE /\ venue = None /\ trades = None /\ style = None /\ answer = None /\ feed = None
          /\ open = None /\ fills = None
  /\ IF part = "prob" THEN Prob!Init
     ELSE /\ match = None /\ bestOf = None /\ stage = None /\ points = None /\ kept = None
          /\ games = None /\ total = None /\ said = None
  /\ IF part = "signals" THEN Signals!Init
     ELSE /\ exchange = None /\ book = None /\ time = None /\ heard = None /\ samples = None
          /\ history = None /\ derived = None
  /\ IF part = "drill" THEN Drill!Init
     ELSE /\ request = None /\ books = None /\ moves = None /\ scan = None /\ rejected = None
          /\ drill = None

control_vars == <<orders, held, ledger, caller, blind, skipped>>
feeds_vars == <<sport, at, n, min, score, ending, how, left>>
sides_vars == <<market, way, second, now, asked, noticed>>
answers_vars == <<venue, trades, style, answer, feed, open, fills>>
prob_vars == <<match, bestOf, stage, points, kept, games, total, said>>
signals_vars == <<exchange, book, time, heard, samples, history, derived>>
drill_vars == <<request, books, moves, scan, rejected, drill>>

Still(p) ==
  /\ p # "events" => UNCHANGED push_vars
  /\ p # "control" => UNCHANGED control_vars
  /\ p # "ingest" => UNCHANGED ingest_vars
  /\ p # "sizing" => UNCHANGED sizing_vars
  /\ p # "feeds" => UNCHANGED feeds_vars
  /\ p # "sides" => UNCHANGED sides_vars
  /\ p # "answers" => UNCHANGED answers_vars
  /\ p # "prob" => UNCHANGED prob_vars
  /\ p # "signals" => UNCHANGED signals_vars
  /\ p # "drill" => UNCHANGED drill_vars
  /\ UNCHANGED part

NextOfPart ==
  \/ part = "events" /\ PushNext /\ Still("events")
  \/ part = "control" /\ Control!Next /\ Still("control")
  \/ part = "ingest" /\ IngestNext /\ Still("ingest")
  \/ part = "sizing" /\ SizingNext /\ Still("sizing")
  \/ part = "feeds" /\ Feeds!Next /\ Still("feeds")
  \/ part = "sides" /\ Matching!Next /\ Still("sides")
  \/ part = "answers" /\ Answers!Next /\ Still("answers")
  \/ part = "prob" /\ Prob!Next /\ Still("prob")
  \/ part = "signals" /\ Signals!Next /\ Still("signals")
  \/ part = "drill" /\ Drill!Next /\ Still("drill")

varsOfAll ==
  <<part, push_vars, control_vars, ingest_vars, sizing_vars, feeds_vars, sides_vars, answers_vars,
    prob_vars, signals_vars, drill_vars>>

SpecOfParts == InitOfPart /\ [][NextOfPart]_varsOfAll

------------------------------------------------------------------------------
\* Every variable of every module holds what it is meant to; and what the client of an
\* event stream will never see is counted.
TypesHold ==
  CASE part = "events" -> PushTypeOK /\ LossIsCounted
    [] part = "control" -> Control!TypeOK
    [] part = "ingest" -> IngestTypeOK
    [] part = "sizing" -> SizingTypeOK
    [] part = "feeds" -> Feeds!TypeOK
    [] part = "sides" -> Matching!TypeOK
    [] part = "answers" -> Answers!TypeOK
    [] part = "prob" -> Prob!TypeOK
    [] part = "signals" -> Signals!TypeOK
    [] part = "drill" -> Drill!TypeOK

\* OrderControl: whatever operators and reconciliation place, replace and cancel at the
\* same time, the exchange refuses no exit for want of shares but one asked for on an
\* account that was not the exchange's, or by a replacement of more than it replaced;
\* a list of cancellations asks for every order on it that the account lists.
ExitsFit == part = "control" => Control!ExitsFit /\ Control!BulkReachesAll

\* MatchFeeds: status, period and score a feed's parser reads are those of the match, in
\* every sport and phase, breaks, overtime, halts and called-off matches included; but
\* for the ends their texts do not know and the halt inplay tells by its text alone.
SaidAsPlayed == part = "feeds" => Feeds!SaidAsPlayed

\* MarketSides: a market is matched to its own game, not to another one of the same two
\* teams, as far as the feed tells when a game starts; only if it is about one game; and
\* at every poll while that game is played.
OwnGameMatched == part = "sides" => Matching!OwnGameMatched /\ Matching!GameIsFound

\* OrderAnswers: the reading of the answer to a submission hides nothing of what had
\* become of the order; channel and listing read the same order and the same fill; an
\* order that rests is among the open ones (clob.py, user_ws_adapter.py).
AnswerIsTrue ==
  part = "answers" => Answers!AnswerIsTrue /\ Answers!FeedAgreesWithRest /\ Answers!RestingIsKnown

\* MathProb: probability 1 given for points made, periods over and told or sets enough is
\* final, that side wins however the match goes on; when the match is over no side that
\* lost has it, and never both sides.  (1 given because no time is left: not promised.)
MadeIsFinal == part = "prob" => Prob!MadeIsFinal /\ Prob!LoserNeverCertain

\* BookSignals: the metrics of a book agree with each other and with the window they are
\* read from, whatever frames made the book and however they were spaced; a direction is
\* never against the move of the price.
ReadingsAgree == part = "signals" => Signals!ReadingsAgree /\ Signals!LabelFollowsPrice

\* PaperDrill: every token a scan was to visit is in its funnel once, also when books move
\* and requests fail under it; the exchange is asked within the budget; what is shown of
\* a scan without a trade is the best refusal and a wide sample; "ok" is a full fill.
FunnelAddsUp ==
  part = "drill" =>
    Drill!FunnelAddsUp /\ Drill!ShownIsBest /\ Drill!SampleIsWide /\ Drill!OkIsFilled

=============================================================================
