------------------------------ MODULE MathProb ------------------------------
(***************************************************************************)
(* What a score says for certain (sports/math_prob.py): a match is played,  *)
(* the two score feeds tell of it what they tell, and at any time the side  *)
(* of a market may be given the probability 1, "数学上 100% 锁定".              *)
(*                                                                         *)
(* A verdict is the class of the probability a lock returns: "one",         *)
(* "zero", "lose" (1 with the outcome "lose", which the signal drops: see   *)
(* Certain), "estimate" for every value                                     *)
(* computed from scoring rates, "unsupported", and "raises".  Lines are     *)
(* doubled so that they are integers.                                       *)
(***************************************************************************)
EXTENDS Integers, FiniteSets

CONSTANTS
  Sports,       \* the sports played
  MaxScore,     \* bound on the score of a side
  MaxHalves,    \* bound on the half innings of baseball
  GamesCounted, \* tennis games are counted up to here
  Line,         \* twice the line of totals
  GamesLine,    \* twice the line of totals of tennis games
  Handicap,     \* twice what the home side gives
  Unknown       \* None

VARIABLES
  sport,   \* the sport of the match
  bestOf,  \* the sets a tennis match is the best of
  stage,   \* half, quarter, period, half inning, set or innings; 0 when over
  score,   \* points; sets in tennis
  kept,    \* the score at half-time, after the first inning, set or innings
  games,   \* games of the set that is played, or was played last
  total,   \* games of the match
  said     \* what was said for certain: market, side, and on what ground

vars == <<sport, bestOf, stage, score, kept, games, total, said>>

Sides == {"home", "away", "over", "under", "yes", "no"}
Nil == [home |-> 0, away |-> 0]
Other(s) == IF s = "home" THEN "away" ELSE "home"
Lead(p, s) == p[s] - p[Other(s)]
Sum2(p) == 2 * (p.home + p.away)

\* MarketType, the line, and what the slug says of a proposition; a market with
\* "half" settles on the first half only.
Market(t, prop, half) == [type |-> t, prop |-> prop, half |-> half]

MarketsOf(sp) ==
  {Market("moneyline", "", FALSE)}
  \cup (IF sp = "cricket" THEN {} ELSE {Market("totals", "", FALSE)})
  \cup (IF sp \in {"soccer", "basketball", "hockey"} THEN {Market("spreads", "", FALSE)} ELSE {})
  \cup (IF sp = "soccer"
        THEN {Market("totals", "", TRUE)}
             \cup {Market("prop", p, FALSE) :
                     p \in {"halftime-home", "halftime-draw", "halftime-away", "btts", "draw"}}
        ELSE {})
  \cup (IF sp = "baseball" THEN {Market("prop", "nrfi", FALSE)} ELSE {})
  \cup (IF sp = "tennis" THEN {Market("prop", "set-winner", FALSE)} ELSE {})

SidesOf(m) ==
  CASE m.type = "totals" -> {"over", "under"}
    [] m.type = "prop" /\ m.prop # "set-winner" -> {"yes", "no"}
    [] OTHER -> {"home", "away"}

AllMarkets == UNION {MarketsOf(sp) : sp \in Sports}

------------------------------------------------------------------------------
(* The match.                                                               *)

Over == stage = 0

Periods(sp) == CASE sp = "soccer" -> 3 [] sp = "basketball" -> 4 [] sp = "hockey" -> 3
                 [] sp = "cricket" -> 2 [] OTHER -> 0

SetsToWin == (bestOf \div 2) + 1

\* A set ends at six games with two ahead, or at seven.
SetWon(g, s) == g[s] = 7 \/ (g[s] = 6 /\ g[Other(s)] <= 4)

SetOver == \E s \in {"home", "away"} : SetWon(games, s)

\* Who may score now: nobody at half-time (stage 2 of soccer); in baseball the
\* visitors in odd half innings; in cricket the home side bats first.
MayScore(s) ==
  CASE sport = "soccer" -> stage # 2
    [] sport = "baseball" -> (s = "away") = (stage % 2 = 1)
    [] sport = "cricket" -> (s = "home") = (stage = 1)
    [] OTHER -> sport # "tennis"

\* The point that ends the match: sudden death in overtime, the home team going
\* ahead in the ninth or later, the target reached.
Decides(s, p) ==
  \/ sport = "hockey" /\ stage = 4
  \/ sport = "baseball" /\ stage >= 18 /\ s = "home" /\ Lead(p, "home") > 0
  \/ sport = "cricket" /\ stage = 2 /\ Lead(p, "away") > 0

Score(s) ==
  /\ ~Over /\ MayScore(s) /\ score[s] < MaxScore
  /\ score' = [score EXCEPT ![s] = @ + 1]
  /\ stage' = IF Decides(s, score') THEN 0 ELSE stage
  /\ kept' = IF sport = "baseball" /\ stage <= 2 THEN score' ELSE kept
  /\ UNCHANGED <<sport, bestOf, games, total, said>>

\* A point that is played while the bound of its side is reached is not scored:
\* the match goes on, so a tie can be left only while there is room.
Tied == score.home = score.away

NextStage ==
  CASE sport \in {"soccer", "cricket"} -> IF stage < Periods(sport) THEN stage + 1 ELSE 0
    [] sport \in {"basketball", "hockey"} ->
         IF stage < Periods(sport) \/ (stage = Periods(sport) /\ Tied) THEN stage + 1
         ELSE IF Tied THEN stage ELSE 0
    [] sport = "baseball" ->
         IF stage < 17 \/ (stage = 17 /\ Lead(score, "home") <= 0)
            \/ (stage >= 18 /\ (stage % 2 = 1 \/ Tied)) THEN stage + 1
         ELSE 0

Advance ==
  /\ ~Over /\ sport # "tennis"
  /\ NextStage # stage /\ NextStage <= MaxHalves
  /\ stage' = NextStage
  /\ kept' = IF stage = 1 /\ sport \in {"soccer", "cricket"} THEN score ELSE kept
  /\ UNCHANGED <<sport, bestOf, score, games, total, said>>

\* One game of tennis; the games of a finished set stand until the next begins.
Game(s) ==
  /\ ~Over /\ sport = "tennis"
  /\ games' = [(IF SetOver THEN Nil ELSE games) EXCEPT ![s] = @ + 1]
  /\ total' = IF total < GamesCounted THEN total + 1 ELSE total
  /\ score' = IF SetWon(games', s) THEN [score EXCEPT ![s] = @ + 1] ELSE score
  /\ stage' = IF score'[s] = SetsToWin THEN 0 ELSE IF SetOver THEN stage + 1 ELSE stage
  /\ kept' = IF score = Nil THEN score' ELSE kept
  /\ UNCHANGED <<sport, bestOf, said>>

\* How the market settles; the set a "set-winner" names is the first.
Wins(m, s) ==
  LET p == IF m.half \/ m.prop = "set-winner" THEN kept ELSE score
      sum == IF sport = "tennis" THEN 2 * total ELSE Sum2(p)
      line == IF sport = "tennis" THEN GamesLine ELSE Line
      yes == CASE m.prop = "halftime-home" -> kept.home > kept.away
               [] m.prop = "halftime-away" -> kept.home < kept.away
               [] m.prop = "halftime-draw" -> kept.home = kept.away
               [] m.prop = "btts" -> score.home > 0 /\ score.away > 0
               [] m.prop = "draw" -> Tied
               [] m.prop = "nrfi" -> kept = Nil
  IN CASE s = "over" -> sum > line
       [] s = "under" -> sum < line
       [] s \in {"yes", "no"} -> yes = (s = "yes")
       [] m.type = "spreads" ->
            2 * Lead(score, s) + (IF s = "home" THEN -Handicap ELSE Handicap) > 0
       [] OTHER -> Lead(p, s) > 0

------------------------------------------------------------------------------
(* What the feeds tell of it.                                               *)

\* live_game_state_from_metadata: the sport's code, whether seconds are left, the
\* period, the scores, and the sport's own state, or Unknown.
Told(code, seconds, period, state) ==
  [code |-> code, seconds |-> seconds, period |-> period, score |-> score, state |-> state]

MaybeKept == IF stage = 1 THEN {Unknown} ELSE {Unknown, kept}

\* The inplay feed calls the interval "half_time"; at the end the name of the
\* second half may stay.  The clock is the minute of the match, past 48 soon after
\* the second half began.
InplaySoccer ==
  LET names == <<"first_half", "half_time", "second_half">>
      name == names[IF Over THEN 3 ELSE stage]
  IN {Told("soccer", FALSE, Unknown, [period |-> p, ht |-> h, late |-> l]) :
        p \in {name, Unknown}, h \in MaybeKept,
        l \in IF Over THEN {TRUE} ELSE IF stage = 3 THEN BOOLEAN ELSE {FALSE}}

\* The livescore feed tells no period; the seconds are none in stoppage time.
LivescoreSoccer ==
  {Told("soccer", left, Unknown, st) :
     left \in IF Over THEN {FALSE} ELSE IF stage = 2 THEN {TRUE} ELSE BOOLEAN,
     st \in {Unknown} \cup {[period |-> Unknown, ht |-> h, late |-> FALSE] : h \in MaybeKept}}

InplayBasketball ==
  {Told("basketball", FALSE, Unknown, st) :
     st \in {Unknown} \cup {[period |-> p] : p \in {IF Over THEN Unknown ELSE stage, Unknown}}}

LivescoreBasketball ==
  IF Over THEN {Told("basketball", FALSE, Unknown, Unknown)}
  ELSE {Told("basketball", left, Unknown, [period |-> p]) : left \in BOOLEAN, p \in {stage, Unknown}}
       \cup {Told("basketball", FALSE, Unknown, Unknown)}

\* Neither feed has a state of its own for hockey, and their codes differ. The
\* word "final" is read as the third period.
InplayHockey ==
  {Told("ice-hockey", FALSE, p, Unknown) : p \in {IF Over THEN Unknown ELSE stage, Unknown}}

LivescoreHockey ==
  {Told("hockey", left, p, Unknown) :
     left \in IF Over THEN {FALSE} ELSE BOOLEAN, p \in {IF Over THEN 3 ELSE stage, Unknown}}

\* The half of the inning may be left out; the runs of the first inning too.
Innings(half) ==
  LET at == IF Over THEN 18 ELSE stage
      first == {Unknown, kept}
  IN {Told("baseball", FALSE, Unknown, [inning |-> (at + 1) \div 2, half |-> h, first |-> r]) :
        h \in half, r \in first}

InplayBaseball == Innings({IF stage % 2 = 1 THEN "top" ELSE "bottom", "top"})

LivescoreBaseball ==
  IF Over THEN {Told("baseball", FALSE, Unknown, Unknown)}
  ELSE Innings({IF stage % 2 = 1 THEN "top" ELSE "bottom", "top"})

\* No feed tells the best of or the games of all sets (home_total_games = 0).
TennisSets(shown) ==
  {Told("tennis", FALSE, Unknown, [games |-> g]) : g \in shown}

InplayTennis == TennisSets({games, Unknown})

LivescoreTennis ==
  IF Over THEN {Told("tennis", FALSE, Unknown, Unknown)}
  ELSE TennisSets({IF SetOver THEN Unknown ELSE games})

\* The runs are those of the innings listed last; the target is the first side's
\* total and one, also while that side bats; the balls left come from a remark.
LivescoreCricket ==
  LET bats == IF stage = 1 THEN "home" ELSE "away" IN
  {Told("cricket", FALSE, Unknown,
        [bats |-> b, runs |-> IF b = Unknown THEN 0 ELSE score[b],
         target |-> t, balls |-> balls]) :
     b \in {bats, Unknown}, t \in {score.home + 1, Unknown},
     balls \in IF stage = 2 THEN BOOLEAN ELSE {FALSE}}

Observations ==
  CASE sport = "soccer" -> InplaySoccer \cup LivescoreSoccer
    [] sport = "basketball" -> InplayBasketball \cup LivescoreBasketball
    [] sport = "hockey" -> InplayHockey \cup LivescoreHockey
    [] sport = "baseball" -> InplayBaseball \cup LivescoreBaseball
    [] sport = "tennis" -> InplayTennis \cup LivescoreTennis
    [] sport = "cricket" -> LivescoreCricket

------------------------------------------------------------------------------
(* sports/math_prob.py.                                                     *)

Settled(won) == IF won THEN "one" ELSE "zero"

\* Whether time is left: "some", "none", or "unknown" where nothing tells.  Of the
\* second half of soccer 48 less the minute of the match is left: none from 48 on.
EstimateRemaining(o) ==
  CASE o.seconds -> "some"
    [] o.code = "soccer" ->
         IF o.state = Unknown \/ o.state.period \notin {"first_half", "halftime", "second_half"}
         THEN "unknown"
         ELSE IF o.state.period = "second_half" /\ o.state.late THEN "none" ELSE "some"
    [] o.code = "basketball" ->
         IF o.state # Unknown /\ o.state.period # Unknown THEN "some" ELSE "unknown"
    [] o.code = "hockey" -> IF o.period # Unknown THEN "some" ELSE "unknown"
    [] OTHER -> "unknown"

Handicapped(o, s) == 2 * Lead(o.score, s) + (IF s = "home" THEN -Handicap ELSE Handicap)

ByScore(o, s) == Settled(IF s = "over" THEN Sum2(o.score) > Line ELSE Sum2(o.score) < Line)

\* The lock of totals where no time known counts as no time left.
TotalsLock(o, s) ==
  IF EstimateRemaining(o) # "some" THEN ByScore(o, s)
  ELSE IF s = "over" /\ Sum2(o.score) > Line THEN "one"
  ELSE IF s = "under" /\ Sum2(o.score) >= Line THEN "zero" ELSE "estimate"

SpreadsLock(o, s) ==
  IF EstimateRemaining(o) # "some" THEN Settled(Handicapped(o, s) > 0)
  ELSE IF Handicapped(o, s) <= 0 THEN "zero" ELSE "estimate"

SoccerTotals(o, s) == TotalsLock(o, s)
BasketballTotals(o, s) == TotalsLock(o, s)
HockeyTotals(o, s) == TotalsLock(o, s)
SoccerSpreads(o, s) == SpreadsLock(o, s)
BasketballSpreads(o, s) == SpreadsLock(o, s)

HockeySpreads(o, s) ==
  IF EstimateRemaining(o) = "unknown" THEN "zero" ELSE SpreadsLock(o, s)

SoccerMl(o, s) ==
  IF EstimateRemaining(o) # "some" THEN Settled(Lead(o.score, s) > 0)
  ELSE IF Lead(o.score, s) <= 0 THEN "zero" ELSE "estimate"

BasketballMl(o, s) ==
  IF Lead(o.score, s) <= 0 \/ EstimateRemaining(o) = "unknown" THEN "zero" ELSE "estimate"

HockeyMl(o, s) ==
  IF Lead(o.score, s) <= 0 THEN "zero"
  ELSE IF EstimateRemaining(o) = "unknown" THEN "one" ELSE "estimate"

\* Once the first half is over its score decides; where the feed does not tell
\* that score the score of now is taken for it.
SoccerHalftime(o, s, direction) ==
  LET first == o.state.period = "first_half"
      p == IF first \/ o.state.ht = Unknown THEN o.score ELSE o.state.ht
      actual == IF p.home > p.away THEN "halftime-home"
                ELSE IF p.home < p.away THEN "halftime-away" ELSE "halftime-draw"
  IN CASE o.state = Unknown -> "zero"
       [] o.state.period \in {"second_half", "ended", "full_time", "halftime"} ->
            Settled((actual = direction) = (s = "yes"))
       [] first -> "estimate"
       [] OTHER -> "zero"

SoccerBtts(o, s) ==
  LET both == o.score.home > 0 /\ o.score.away > 0
  IN CASE EstimateRemaining(o) = "unknown" -> "zero"
       [] EstimateRemaining(o) = "none" -> Settled(both = (s = "yes"))
       [] OTHER -> IF both THEN Settled(s = "yes") ELSE "estimate"

SoccerDraw(o, s) ==
  CASE EstimateRemaining(o) = "unknown" -> "zero"
    [] EstimateRemaining(o) = "none" -> Settled((Lead(o.score, "home") = 0) = (s = "yes"))
    [] OTHER -> "estimate"

\* From the ninth inning on one half is left at the top, none at the bottom.
InningsLeft(o) == o.state.inning < 9 \/ o.state.half = "top"

MlbTotals(o, s) ==
  CASE s = "under" /\ Sum2(o.score) >= Line -> "lose"
    [] s = "over" /\ Sum2(o.score) > Line -> "one"
    [] InningsLeft(o) -> "estimate"
    [] OTHER -> IF s = "under" THEN "one" ELSE "lose"

BaseballMl(o, s) ==
  IF Lead(o.score, s) <= 0 THEN "zero" ELSE IF InningsLeft(o) THEN "estimate" ELSE "one"

BaseballNrfi(o, s) ==
  LET first == o.state.first IN
  IF o.state.inning >= 2
  THEN IF first = Unknown THEN "zero" ELSE Settled((first = Nil) = (s = "yes"))
  ELSE IF first # Unknown /\ first # Nil THEN Settled(s = "no") ELSE "estimate"

\* best_of is never told, so it is three.
ToldToWin == 2

TennisMl(o, s) ==
  LET mine == o.score[s]
      theirs == o.score[Other(s)]
  IN CASE o.state = Unknown -> "zero"
       [] mine >= ToldToWin -> "one"
       [] theirs >= ToldToWin -> "zero"
       [] OTHER -> "estimate"

TennisTotals(o, s) ==
  CASE o.state = Unknown -> "zero"
    [] o.score.home + o.score.away >= 3 -> Settled(s = "under")
    [] OTHER -> "estimate"

\* Six games and two ahead; at seven to six the combinations are taken of a
\* negative number.
TennisSetWinner(o, s) ==
  LET g == o.state.games
      mine == g[s]
      theirs == g[Other(s)]
  IN CASE o.state = Unknown -> "zero"
       [] g = Unknown -> "zero"
       [] mine >= 6 /\ mine >= theirs + 2 -> "one"
       [] theirs >= 6 /\ theirs >= mine + 2 -> "zero"
       [] mine = 7 -> "raises"
       [] OTHER -> "estimate"

\* No balls told is no balls left.
CricketChase(o, s) ==
  CASE o.state.target = Unknown -> "zero"
    [] o.state.runs >= o.state.target -> Settled(s = o.state.bats)
    [] ~o.state.balls -> Settled(s # o.state.bats)
    [] OTHER -> "estimate"

\* A market of a part of the match has no lock, unless one is made for it.
SubScopeIgnored(m) == FALSE
SubScope(m) == m.half

\* Each lock refuses a side that its market does not have.
SupportedTotalsAnySide(m, s) == ~SubScope(m) /\ (m.type = "totals" \/ s \in SidesOf(m))
Supported(m, s) == ~SubScope(m) /\ s \in SidesOf(m)

BaseballLock(o, m, s) ==
  CASE o.state = Unknown -> "unsupported"
    [] m.prop = "nrfi" -> BaseballNrfi(o, s)
    [] m.type = "totals" -> MlbTotals(o, s)
    [] OTHER -> BaseballMl(o, s)

SoccerLock(o, m, s) ==
  CASE m.prop = "btts" -> SoccerBtts(o, s)
    [] m.prop = "draw" -> SoccerDraw(o, s)
    [] m.type = "prop" -> SoccerHalftime(o, s, m.prop)
    [] m.type = "moneyline" -> SoccerMl(o, s)
    [] m.type = "totals" -> SoccerTotals(o, s)
    [] OTHER -> SoccerSpreads(o, s)

BasketballLock(o, m, s) ==
  CASE m.type = "moneyline" -> BasketballMl(o, s)
    [] m.type = "totals" -> BasketballTotals(o, s)
    [] OTHER -> BasketballSpreads(o, s)

HockeyLock(o, m, s) ==
  CASE m.type = "moneyline" -> HockeyMl(o, s)
    [] m.type = "totals" -> HockeyTotals(o, s)
    [] OTHER -> HockeySpreads(o, s)

TennisLock(o, m, s) ==
  CASE m.type = "moneyline" -> TennisMl(o, s)
    [] m.type = "totals" -> TennisTotals(o, s)
    [] OTHER -> TennisSetWinner(o, s)

\* evaluate_math_prob.
Verdict(o, m, s) ==
  CASE ~Supported(m, s) -> "unsupported"
    [] o.code = "baseball" -> BaseballLock(o, m, s)
    [] o.code = "soccer" -> SoccerLock(o, m, s)
    [] o.code = "basketball" -> BasketballLock(o, m, s)
    [] o.code = "tennis" -> TennisLock(o, m, s)
    [] o.code = "cricket" -> CricketChase(o, s)
    [] o.code \in {"hockey", "ice-hockey"} -> HockeyLock(o, m, s)

\* What the signal is given for certain: a 1 with the outcome "lose" is dropped by
\* quant_signal.math_prob, and by nobody else.
Certain(o, m, s) == Verdict(o, m, s) = "one"

\* The grounds that nothing can take away: points that were made, a first inning
\* or half that is over and told, sets enough for a match of three.
Made(o, m, s) ==
  CASE m.type = "totals" -> s = "over" /\ sport # "tennis"
    [] m.prop = "btts" -> s = "yes"
    [] m.prop = "nrfi" -> TRUE
    [] m.prop \in {"halftime-home", "halftime-draw", "halftime-away"} -> o.state.ht # Unknown
    [] sport = "tennis" -> m.type = "moneyline" /\ bestOf = 3
    [] sport = "cricket" -> s = o.state.bats
    [] OTHER -> FALSE

\* The decision asks about every side of every market at what is told now.
Ask(o) ==
  LET certain == {c \in MarketsOf(sport) \X Sides : Certain(o, c[1], c[2])}
      new == {<<c[1], c[2], Made(o, c[1], c[2])>> : c \in certain}
  IN /\ said' = said \cup new
     /\ UNCHANGED <<sport, bestOf, stage, score, kept, games, total>>

Init ==
  /\ sport \in Sports
  /\ bestOf \in IF sport = "tennis" THEN {3, 5} ELSE {3}
  /\ stage = 1
  /\ score = Nil /\ kept = Nil /\ games = Nil
  /\ total = 0
  /\ said = {}

Next ==
  \/ \E s \in {"home", "away"} : Score(s) \/ Game(s)
  \/ Advance
  \/ \E o \in Observations : Ask(o)

Spec == Init /\ [][Next]_vars

------------------------------------------------------------------------------
\* The match keeps its bounds, and only a side a market has is ever certain.
TypeOK ==
  /\ sport \in Sports
  /\ bestOf \in {3, 5}
  /\ stage \in 0 .. MaxHalves
  /\ score.home \in Nat /\ score.away \in Nat
  /\ kept.home \in Nat /\ kept.away \in Nat
  /\ games.home \in 0 .. 7 /\ games.away \in 0 .. 7
  /\ total \in 0 .. GamesCounted
  /\ \A c \in said : c[1] \in MarketsOf(sport) /\ c[2] \in SidesOf(c[1]) /\ c[3] \in BOOLEAN

\* What is certain by points that were made, by a first inning or half that is over
\* and told, or by sets enough for a match of three, stays so: however the match goes
\* on, and whatever the feeds leave out, that side wins.  Of what is certain because
\* no time is left or known (moneylines, spreads, unders, draws and "no" of both to
\* score, but tennis and cricket) nothing is said: math_prob.py:12 calls it 锁定 too,
\* and it is not.  (_soccer_totals_lock, _soccer_btts_lock, _baseball_nrfi_lock,
\* _soccer_halftime_lock, _tennis_ml_lock, _cricket_chase_lock)
MadeIsFinal == Over => \A c \in said : c[3] => Wins(c[1], c[2])

\* The feed tells what the market is about: the side that bats, the score at
\* half-time, and at cricket there is a winner; no feed tells the games of a tennis
\* match or the set they belong to.
ToldEnough(o, m) ==
  /\ sport = "cricket" => o.state.bats # Unknown /\ ~(Over /\ Tied)
  /\ sport = "tennis" => m.type = "moneyline" /\ bestOf = 3
  /\ m.prop \in {"halftime-home", "halftime-draw", "halftime-away"} =>
       o.state # Unknown /\ o.state.ht # Unknown

\* The two sides of a market are never certain at one time, and when the match is
\* over the side that lost is not (math_prob.py:1276, "败方 token 也被认为 100% 赢"),
\* where the feed tells enough: the 1 that MlbTotals answers for a loser is dropped.
LoserNeverCertain ==
  \A o \in Observations : \A m \in {n \in MarketsOf(sport) : ToldEnough(o, n)} :
    LET certain == {s \in Sides : Certain(o, m, s)} IN
    /\ Cardinality(certain) <= 1
    /\ Over => \A s \in certain : Wins(m, s)
==============================================================================
