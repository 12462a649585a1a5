---------------------------- MODULE MarketSides ----------------------------
(***************************************************************************)
(* Which game a market is about, and which side each of its tokens is on   *)
(* (workflow/outcomes.py, workflow/live_state.py, sports/slug_resolver.py, *)
(* workflow/universe.py and the matching hook of workflow/workflow.py).    *)
(*                                                                         *)
(* The same two teams meet twice, on one day or on two.  One market names  *)
(* them; the feeds list the games; every poll matches the market to one of *)
(* the events, and its tokens are then priced by the side they are given.  *)
(* A text is the set of the phrases the code looks for in it.  Time is in  *)
(* steps of three hours.                                                   *)
(***************************************************************************)
EXTENDS Integers, Sequences, FiniteSets

CONSTANTS
  SportCodes,  \* the sports, by their canonical code
  Schedules,   \* when the second game may start
  First,       \* when the first game starts
  Last,        \* the last moment looked at
  None

VARIABLES
  market,  \* what is listed: see Listing
  way,     \* how the feeds tell it: see Ways
  second,  \* when the second game starts
  now,
  asked,   \* has there been a poll since
  seen     \* what it matched, or None

vars == <<market, way, second, now, asked, seen>>

Games == {1, 2}
Start(g) == IF g = 1 THEN First ELSE second
Day(t) == t \div 8
Played(g) == now = Start(g)
IsOver(g) == now > Start(g)

Apart(s, t) == IF s > t THEN s - t ELSE t - s

------------------------------------------------------------------------------
(* What the exchange lists.                                                 *)

\* The phrases of the question and the title, and the outcomes.
Kinds ==
  [moneyline |-> [words |-> {"vs"}, outcomes |-> "teams"],
   win       |-> [words |-> {"vs", "will win", "win the game"}, outcomes |-> "yesno"],
   beat      |-> [words |-> {"vs", "will win", "beat"}, outcomes |-> "yesno"],
   totals    |-> [words |-> {"vs", "total", "line"}, outcomes |-> "overunder"],
   ou        |-> [words |-> {"vs", "total", "line"}, outcomes |-> "short"],
   spread    |-> [words |-> {"vs", "spread", "line"}, outcomes |-> "teams"],
   noline    |-> [words |-> {"vs", "total"}, outcomes |-> "overunder"],
   prop      |-> [words |-> {"vs"}, outcomes |-> "yesno"],
   series    |-> [words |-> {"vs", "series winner"}, outcomes |-> "teams"],
   seriesyes |-> [words |-> {"vs", "will win", "win the series"}, outcomes |-> "yesno"],
   champion  |-> [words |-> {"winner", "champion"}, outcomes |-> "teams"],
   award     |-> [words |-> {"vs", "award"}, outcomes |-> "yesno"]]

\* Those that settle on one game.
OfOneGame == {"moneyline", "win", "beat", "totals", "ou", "spread", "prop"}

\* starts, dated: is the game's start told, is its date in the slug.
\* No series is played in tennis, and in esports the match is one.
Listing == {m \in [kind : DOMAIN Kinds, sport : SportCodes, game : Games,
                   starts : BOOLEAN, dated : BOOLEAN] :
              m.sport = "tennis" => m.kind \notin {"series", "seriesyes"}}

Words == Kinds[market.kind].words \cup {market.sport}
Outcomes == Kinds[market.kind].outcomes
Has(phrases) == Words \cap phrases # {}

------------------------------------------------------------------------------
(* The descriptor of a market.                                              *)

IsYesNo == Outcomes = "yesno"

\* Two names for outcomes and a marker of a matchup.
IsEsportsMoneyline == Outcomes = "teams" /\ Has({"vs"})

IsSeason == Has({"season", "champion", "award", "playoffs"})
            \/ (Has({"winner", "next team", "play for"}) /\ ~Has({"vs"}))

Family ==
  IF Has({"esports"}) THEN IF IsEsportsMoneyline THEN "single_game" ELSE "esports"
  ELSE IF ~Has({"tennis"}) /\ Has({"series winner", "win the series", "best of"}) THEN "series"
  ELSE IF Has({"winner", "to win the"}) /\ ~Has({"vs"}) THEN "outright"
  ELSE IF IsSeason /\ (IsYesNo \/ ~Has({"vs"})) THEN "outright"
  ELSE "single_game"

IsYesNoMoneyline ==
  /\ Family = "single_game" /\ IsYesNo
  /\ ~Has({"soccer"})
  /\ Has({"baseball", "basketball", "tennis", "ice-hockey", "esports", "vs"})
  /\ ~Has({"champion", "series winner", "win the series", "playoffs"})
  /\ Has({"will win"})
  /\ Has({"win the game", "beat", "vs", "against"})

Type ==
  IF Outcomes = "overunder" \/ Has({"total"}) THEN "totals"
  ELSE IF Has({"spread", "handicap"}) THEN "spreads"
  ELSE IF IsYesNo THEN IF IsYesNoMoneyline THEN "moneyline" ELSE "binary_prop"
  ELSE "moneyline"

\* The side of each token.  That of a team is its place in the list of outcomes,
\* of a question about one team "home" for Yes, whoever is asked about.
TotalsTargets == <<"over", "under">>
BinaryTargets == <<"yes", "no">>
SideTargets == IF Outcomes = "teams" THEN <<"home", "away">> ELSE <<>>
YesNoMoneylineTargets == IF Has({"will win"}) THEN <<"home", "away">> ELSE <<>>

Targets ==
  CASE Type = "totals" -> TotalsTargets
    [] Type = "binary_prop" -> BinaryTargets
    [] Type = "moneyline" /\ IsYesNo -> YesNoMoneylineTargets
    [] OTHER -> SideTargets

MarketLine == Has({"line"})

Accepted == (Type \in {"totals", "spreads"} => MarketLine) /\ Targets # <<>>

\* Kept for trading: a family that is admitted, a sport that is known.
InUniverse == Accepted /\ Family \in {"single_game", "outright", "series"}

------------------------------------------------------------------------------
(* What the feeds list.  Livescore lists the games of the day, with no start; *)
(* inplay the game that is played, with its odds and, as a rule, its start.  *)

\* Does inplay have the games, is their start read; whose names score higher.
Ways == [covered : BOOLEAN, timed : BOOLEAN, longer : {"livescore", "inplay"}]

Event(g, src) == [game |-> g, src |-> src]
Events ==
  LET today == SelectSeq(<<1, 2>>, LAMBDA g : Day(Start(g)) = Day(now))
      live == SelectSeq(<<1, 2>>, LAMBDA g : Played(g) /\ way.covered)
  IN [i \in 1 .. Len(today) |-> Event(today[i], "livescore")]
     \o [i \in 1 .. Len(live) |-> Event(live[i], "inplay")]

EventStart(e) == IF e.src = "inplay" /\ way.timed THEN Start(e.game) ELSE None
Status(e) == IF IsOver(e.game) THEN "ended" ELSE IF Played(e.game) THEN "live" ELSE "scheduled"

\* The sport as each feed writes it.
SportOf(e) == IF market.sport = "ice-hockey" /\ e.src = "livescore" THEN "hockey" ELSE market.sport

NormalizeSport(code) == IF code \in {"hockey", "icehockey"} THEN "ice-hockey" ELSE code

------------------------------------------------------------------------------
(* The matching.                                                            *)

MarketStart == IF market.starts THEN Start(market.game) ELSE None
MarketSports == Words \cap SportCodes
MarketDate == IF market.dated THEN Day(Start(market.game)) ELSE None

\* Of an event without a start only markets twelve hours ahead are left out.
StartIsNear(e) ==
  IF EventStart(e) = None THEN MarketStart <= now + 4
  ELSE Apart(EventStart(e), MarketStart) <= (IF market.sport = "tennis" THEN 8 ELSE 2)

Candidates ==
  SelectSeq(Events, LAMBDA e : /\ NormalizeSport(SportOf(e)) \in MarketSports
                               /\ market.starts => StartIsNear(e))

\* Mutant: the tolerance of tennis for every sport.
StartAllowedAsTennis(e) == Apart(MarketStart, EventStart(e)) <= 8

StartAllowed(e) ==
  Apart(MarketStart, EventStart(e)) <= (IF market.sport = "tennis" THEN 8 ELSE 1)

DateAllowed(e) ==
  \/ MarketDate = None \/ EventStart(e) = None
  \/ MarketDate = Day(EventStart(e))
  \/ market.sport = "tennis" /\ Apart(MarketDate, Day(EventStart(e))) <= 1

\* Both names stand in the text of the market: they do in every event listed.
MatchesTeams(e) ==
  IF MarketStart # None /\ EventStart(e) # None THEN StartAllowed(e) ELSE DateAllowed(e)

Score(e) == IF e.src = way.longer THEN 2 ELSE 1

\* The best score, and the first of those that have it; odds it lacks are taken
\* from the first event that matches too.
BestOf(s) ==
  LET best == CHOOSE i \in DOMAIN s :
                /\ \A j \in DOMAIN s : Score(s[j]) <= Score(s[i])
                /\ \A j \in 1 .. i - 1 : Score(s[j]) < Score(s[i])
      priced == {i \in DOMAIN s : s[i].src = "inplay"}
      odds == IF s[best].src = "inplay" THEN s[best]
              ELSE IF priced = {} THEN None
              ELSE s[CHOOSE i \in priced : \A j \in priced : i <= j]
  IN [event |-> s[best], odds |-> odds]

Match ==
  LET s == SelectSeq(Candidates, MatchesTeams)
  IN IF ~Accepted \/ Family # "single_game" \/ s = <<>> THEN None ELSE BestOf(s)

\* entry_signal_gate: an event that has ended, is live or paused.
SignalAllowed == seen # None /\ Status(seen.event) \in {"ended", "live"}

------------------------------------------------------------------------------
TypeOK ==
  /\ market \in Listing /\ way \in Ways
  /\ second \in Schedules /\ now \in 0 .. Last /\ asked \in BOOLEAN
  /\ seen = None \/ (seen.event.game \in Games /\ seen.event.src \in {"livescore", "inplay"})

Init ==
  /\ market \in Listing /\ way \in Ways
  /\ second \in Schedules
  /\ now = 0 /\ asked = FALSE /\ seen = None

Pass ==
  /\ now < Last
  /\ now' = now + 1 /\ asked' = FALSE /\ seen' = None
  /\ UNCHANGED <<market, way, second>>

Poll ==
  /\ asked' = TRUE /\ seen' = Match
  /\ UNCHANGED <<market, way, second, now>>

Next == Pass \/ Poll

Spec == Init /\ [][Next]_vars

------------------------------------------------------------------------------
\* An event of which the start is told is matched to the market of its own game
\* alone, whether the market tells its start or only its date (then: to a game of
\* that day), and so are the odds, but in tennis, where a match that is moved to
\* the next day is still found; a market that settles on a series, a
\* championship or an award is matched to no game.  (candidate_live_events_for_market,
\* _match_team_event, best_live_match)
OwnGameMatched ==
  seen # None =>
    /\ market.kind \in OfOneGame \/ (market.sport = "esports" /\ market.kind = "series")
    /\ \A e \in {seen.event, seen.odds} \ {None} :
         EventStart(e) # None /\ market.sport # "tennis" =>
           /\ market.starts => e.game = market.game
           /\ market.dated => Day(Start(e.game)) = Day(Start(market.game))

\* A market of the universe whose game is played is matched at every poll to an event
\* that lets it trade, although the feeds write the sports their own way and the game
\* of the other day has the same teams.
\* (_normalize_sport_code, candidate_live_events_for_market, entry_signal_gate)
GameIsFound ==
  asked /\ Played(market.game) /\ InUniverse /\ market.kind \in OfOneGame => SignalAllowed
=============================================================================
