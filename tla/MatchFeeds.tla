----------------------------- MODULE MatchFeeds -----------------------------
(***************************************************************************)
(* What the two score feeds of the provider say of a match                 *)
(* (infra/sports/goalserve_livescore_parsers.py and                        *)
(* goalserve_inplay_parsers.py): a match of one sport is played, and at    *)
(* every point of it the parser of its sport turns what the feed carries   *)
(* into a status, a period, the seconds left and a score.                  *)
(*                                                                         *)
(* A status text is the sequence of its words in lower case; "kw in s" of  *)
(* the code finds a phrase in it whose words may stand inside other words. *)
(* The texts the provider writes are those of the tables in goalserve/ and *)
(* of the tables and comments of the parsers.                              *)
(* The state of the sport that the parsers add (scores of quarters, sets,  *)
(* half-time) is the subject of MathProb.                                  *)
(***************************************************************************)
EXTENDS Integers, Sequences

CONSTANTS
  Sports,    \* the sports played
  MaxScore,  \* bound on the score of a side
  None

VARIABLES
  sport,  \* the sport of the match
  at,     \* "before", "play", "break", "extra", "halted", "over", "off" (called off)
  n,      \* the period played, or played last
  min,    \* halves of the period that are gone: 0, 1 or 2
  score,  \* points, sets, maps, or 1 of the winner of a fight
  ending, \* "played", "shootout" or "decided" (awarded, retired, walked over)
  how,    \* how the feeds tell it: see Manner
  left    \* the seconds left that livescore told last, or None

vars == <<sport, at, n, min, score, ending, how, left>>

Halves == {"soccer", "handball", "rugby"}
Quarters == {"basketball", "american-football"}
Sets == {"tennis", "volleyball", "table-tennis", "esports"}
Fights == {"boxing", "mma"}
Fields == {"golf", "motorsport", "horse_racing"}
Inplays == {"soccer", "basketball", "tennis", "volleyball", "esports", "baseball",
            "hockey", "american-football"}
\* The sports whose tables name decided and suspended matches, or shoot-outs.
Deciding == {"soccer", "tennis", "hockey", "basketball", "baseball", "esports"}
Shooting == {"soccer", "hockey"}
Feeds == IF sport \in Inplays THEN {"livescore", "inplay"} ELSE {"livescore"}

\* Is a timer given; is the end a flag of the inplay feed; is a break or a halt
\* one; does team_info lack the score.
Manner == [timed : BOOLEAN, flagged : BOOLEAN, stopped : BOOLEAN, bare : BOOLEAN]

Nth == <<"1st", "2nd", "3rd", "4th", "5th", "6th", "7th", "8th", "9th", "10th", "11th">>
Digits == <<"1", "2", "3", "4", "5", "6", "7", "8", "9", "10", "11">>

Periods == CASE sport \in Halves -> 2 [] sport \in Quarters -> 4 [] sport = "hockey" -> 3
             [] sport = "baseball" -> 9 [] sport \in Sets -> 3 [] OTHER -> 1
Length == CASE sport = "soccer" -> 45 [] sport = "rugby" -> 40 [] sport = "handball" -> 30
            [] sport = "hockey" -> 20 [] sport = "basketball" -> 12 [] OTHER -> 0

Elapsed == (min * Length) \div 2
Timer == IF ~how.timed THEN None
         ELSE IF sport \in Halves THEN (n - 1) * Length + Elapsed ELSE Elapsed

------------------------------------------------------------------------------
(* What the provider writes.                                                *)

PlayedLabel ==
  CASE sport = "soccer" -> <<"minute">>
    [] sport \in Halves -> <<Nth[n], "half">>
    [] sport \in Quarters -> <<Nth[n], "quarter">>
    [] sport = "hockey" -> <<Nth[n], "period">>
    [] sport = "baseball" -> <<IF min = 0 THEN "top" ELSE "bot", Nth[n]>>
    [] sport = "esports" -> <<"started">>
    [] sport \in Sets -> <<"set", Digits[n]>>
    [] OTHER -> <<"in", "progress">>

BreakLabel ==
  CASE sport = "soccer" -> <<"ht">>
    [] sport \in Halves \/ (sport \in Quarters /\ n = 2) -> <<"half", "time">>
    [] sport = "baseball" -> <<"end", Nth[n]>>
    [] OTHER -> <<"break", "time">>

ExtraLabel ==
  CASE sport = "soccer" -> <<"et">>
    [] sport \in Halves -> <<"extra", "time">>
    [] sport = "baseball" -> <<"top", Nth[n]>>
    [] OTHER -> <<"overtime">>

EndLabel ==
  CASE ending = "shootout" -> IF sport = "soccer" THEN <<"pen.">> ELSE <<"after", "penalties">>
    [] ending = "decided" -> IF sport = "tennis" THEN <<"retired">> ELSE <<"awarded">>
    [] n > Periods /\ sport = "soccer" -> <<"aet">>
    [] n > Periods /\ sport \in {"basketball", "hockey"} -> <<"after", "over", "time">>
    [] OTHER -> IF sport = "soccer" THEN <<"ft">> ELSE <<"finished">>

Label ==
  CASE at = "before" -> IF sport = "soccer" THEN <<"18:00">> ELSE <<"not", "started">>
    [] at = "off" -> <<"cancelled">>
    [] at = "play" -> PlayedLabel
    [] at = "break" -> BreakLabel
    [] at = "extra" -> ExtraLabel
    [] at = "halted" -> <<"suspended">>
    [] OTHER -> EndLabel

\* info.period of the inplay feed; what a flag tells leaves the last text.
InplayLabel ==
  CASE at = "before" -> <<"not", "started">>
    [] at = "over" /\ how.flagged -> IF n > Periods THEN ExtraLabel
                                     ELSE IF sport = "soccer" THEN <<Nth[2], "half">>
                                     ELSE PlayedLabel
    [] at = "over" /\ sport = "soccer" /\ ending # "decided" ->
         IF ending = "shootout" THEN <<"after", "penalties">> ELSE <<"full", "time">>
    [] at = "over" \/ (at = "halted" /\ ~how.stopped) -> Label
    [] sport = "soccer" /\ at \in {"play", "halted"} -> <<Nth[n], "half">>
    [] sport = "soccer" /\ at = "break" -> <<"half", "time">>
    [] sport = "soccer" /\ at = "extra" -> <<"extra", "time">>
    [] sport = "baseball" /\ at # "off" -> <<"inning", Digits[n]>>
    [] OTHER -> IF at = "halted" THEN PlayedLabel ELSE Label

Finished == at = "over" /\ how.flagged     \* core.finished
Removed == at = "off"                      \* core.removed
Stopped == at \in {"break", "halted"} /\ how.stopped     \* core.stopped

------------------------------------------------------------------------------
(* The status.                                                              *)

\* The words of the texts that have a word looked for standing inside them.
Inside == {<<"ended", "suspended">>, <<"pen", "penalties">>, <<"pen", "pen.">>,
           <<"half", "halftime">>}
Stands(word, inside) == word = inside \/ <<word, inside>> \in Inside

Within(s, phrase) ==
  \E i \in 0 .. Len(s) - Len(phrase) : \A j \in DOMAIN phrase : Stands(phrase[j], s[i + j])
Has(s, phrases) == \E p \in phrases : Within(s, p)

TextStatus(s) ==
  IF s \in {<<"in", "progress">>, <<"inprogress">>, <<"live">>}
     \/ Has(s, {<<"quarter">>, <<"period">>, <<"inning">>, <<"half">>, <<"break", "time">>,
                <<"intermission">>})
     \/ (Len(s) > 1 /\ Has(SubSeq(s, 1, Len(s) - 1), {<<"set">>}))
  THEN "LIVE"
  ELSE IF s \in {<<"finished">>, <<"final">>, <<"ft">>} THEN "ENDED"
  ELSE IF s = <<"not", "started">> THEN "SCHEDULED" ELSE "UNKNOWN"

XmlLive ==
  {<<"overtime">>, <<"ot">>, <<"halftime">>, <<"in", "progress">>, <<"inprogress">>, <<"live">>}
  \cup {<<h, Nth[i]>> : h \in {"bot", "end"}, i \in 1 .. 9}
  \cup {<<Nth[i], "half">> : i \in 1 .. 2}
XmlEnded == {<<"finished">>, <<"final">>, <<"ft">>, <<"after", "over", "time">>,
             <<"after", "et">>, <<"after", "pen.">>, <<"aet">>, <<"pen">>, <<"aps">>}
XmlIntermission == {<<"break", "time">>, <<"half", "time">>, <<"halftime">>, <<"intermission">>,
                    <<"interval">>, <<"ht">>}

XmlStatus(s) ==
  IF s \in XmlEnded THEN "ENDED"
  ELSE IF s \in {<<"not", "started">>, <<"ns">>, <<>>} THEN "SCHEDULED"
  ELSE IF s \in XmlLive \/ Has(s, {<<"quarter">>, <<"period">>, <<"inning">>, <<"set">>,
                                   <<"bottom">>, <<"top">>} \cup XmlIntermission)
       THEN "LIVE" ELSE "UNKNOWN"

SoccerStatus(s) ==
  IF s \in XmlEnded THEN "ENDED"
  ELSE IF s \in {<<"18:00">>, <<"?">>, <<>>} THEN "SCHEDULED"
  ELSE IF s \in {<<"ht">>, <<"half", "time">>, <<"halftime">>, <<"minute">>, <<"et">>,
                 <<"extra", "time">>, <<"aet", "pending">>, <<"pen", "pending">>}
       THEN "LIVE" ELSE "UNKNOWN"

EsportsStatus(s) ==
  CASE s = <<"not", "started">> -> "SCHEDULED"
    [] s = <<"started">> -> "LIVE"
    [] s \in {<<"finished">>, <<"awarded">>} -> "ENDED"
    [] s \in {<<"cancelled">>, <<"canceled">>} -> "CANCELLED"
    [] s = <<"postponed">> -> "POSTPONED"
    [] OTHER -> "UNKNOWN"

EndedPeriods == {<<"finished">>, <<"final">>, <<"ended">>, <<"after", "over", "time">>,
                 <<"after", "et">>, <<"after", "pen">>, <<"aet">>, <<"full", "time">>,
                 <<"game", "over">>}

\* Mutant: an end is looked for in the text alone.
InplayStatusOfText(s) ==
  IF Removed THEN "CANCELLED"
  ELSE IF Has(s, EndedPeriods) THEN "ENDED"
  ELSE IF Has(s, {<<"not", "started">>, <<"scheduled">>}) THEN "SCHEDULED"
  ELSE IF Stopped THEN "PAUSED" ELSE "LIVE"

InplayStatus(s) ==
  IF Finished THEN "ENDED"
  ELSE IF Removed THEN "CANCELLED"
  ELSE IF Has(s, EndedPeriods) THEN "ENDED"
  ELSE IF Has(s, {<<"not", "started">>, <<"scheduled">>}) THEN "SCHEDULED"
  ELSE IF Stopped THEN "PAUSED" ELSE "LIVE"

------------------------------------------------------------------------------
(* The seconds left, estimated.                                             *)

Positive(x) == IF x > 0 THEN x ELSE 0
IsHalfTime(s) == s \in {<<"ht">>, <<"half", "time">>, <<"halftime">>}

\* Without a timer the number the status is; extra time is no number.
SoccerSeconds(s) ==
  LET elapsed == IF how.timed THEN Timer
                 ELSE IF s = <<"minute">> THEN (n - 1) * Length + Elapsed ELSE 0
  IN IF IsHalfTime(s) THEN 45 * 60
     ELSE IF elapsed <= 0 THEN None ELSE Positive(90 - elapsed) * 60

RugbySeconds(s) ==
  IF IsHalfTime(s) THEN 40 * 60
  ELSE IF ~how.timed THEN None
  ELSE IF Timer <= 0 THEN None ELSE Positive(80 - Timer) * 60

\* A timer that is missing counts as nothing played of the period.
BasketballSeconds(s) ==
  LET elapsed == IF how.timed THEN Timer ELSE 0
      of(i) == 60 * (12 * (4 - i) + Positive(12 - elapsed))
  IN IF \E i \in 1 .. 4 : Within(s, <<Nth[i], "quarter">>)
     THEN of(CHOOSE i \in 1 .. 4 : Within(s, <<Nth[i], "quarter">>))
     ELSE IF Has(s, {<<"overtime">>}) THEN Positive(5 - elapsed) * 60 ELSE None

HockeySeconds(s, played) ==
  LET elapsed == IF how.timed THEN Timer ELSE 0
      of(i) == 60 * (20 * (3 - i) + Positive(20 - elapsed))
  IN IF \E i \in 1 .. 3 : Within(s, <<Nth[i], "period">>)
     THEN of(CHOOSE i \in 1 .. 3 : Within(s, <<Nth[i], "period">>))
     ELSE IF Has(s, {<<"overtime">>}) THEN Positive(5 - elapsed) * 60
     ELSE IF Has(s, {<<"break", "time">>, <<"intermission">>, <<"interval">>})
          THEN Positive(3 - played) * 20 * 60 ELSE None

------------------------------------------------------------------------------
(* The period.                                                              *)

HalfPeriod(s) ==
  CASE s \in {<<"1st", "half">>, <<"first", "half">>, <<"half", "time">>, <<"halftime">>} -> 1
    [] s \in {<<"2nd", "half">>, <<"second", "half">>} -> 2
    [] s = <<"extra", "time">> -> 3
    [] OTHER -> None

SoccerPeriod(s) ==
  CASE s \in {<<"1st", "half">>, <<"first", "half">>} -> 1
    [] s \in {<<"half", "time">>, <<"halftime">>} -> "half_time"
    [] s \in {<<"2nd", "half">>, <<"second", "half">>} -> 2
    [] s \in {<<"extra", "time">>, <<"1st", "extra">>, <<"2nd", "extra">>} -> 3
    [] s \in {<<"penalties">>, <<"penalty", "shootout">>} -> "penalties"
    [] OTHER -> None

QuarterOf(s) ==
  IF Has(s, {<<"halftime">>, <<"half", "time">>}) THEN 3
  ELSE IF Has(s, {<<"overtime">>, <<"over", "time">>}) THEN 5
  ELSE IF \E i \in 1 .. 4 : Has(s, {<<Nth[i]>>})
       THEN CHOOSE i \in 1 .. 4 : Has(s, {<<Nth[i]>>}) ELSE None

\* The first number from 1 that stands in the text as a word of its own or with
\* "th", "nd", "st" or "rd" after it: "1th" stands in "11th".
Spells(s, i) == Has(s, {<<Digits[i]>>, <<Nth[i]>>}) \/ (i = 1 /\ Has(s, {<<Nth[11]>>}))

Inning(s) ==
  IF \E i \in 1 .. 11 : Spells(s, i)
  THEN CHOOSE i \in 1 .. 11 : Spells(s, i) /\ \A j \in 1 .. i - 1 : ~Spells(s, j)
  ELSE None
HalfInning(s) == IF Has(s, {<<"top">>}) THEN "top"
                 ELSE IF Has(s, {<<"bot">>, <<"bottom">>}) THEN "bottom" ELSE None

\* The set that is played: the last begun unless as many are decided.
SetOf(begun, decided) == IF begun = 0 THEN 1 ELSE IF decided >= begun THEN begun + 1 ELSE begun
SetsBegun == IF at = "before" THEN 0 ELSE n
SetsDecided == score.home + score.away

\* "set\s*(\d+)" in the text, or the last set that has a score.
InplaySet(s) == IF \E i \in 1 .. 5 : Within(s, <<"set", Digits[i]>>)
                THEN CHOOSE i \in 1 .. 5 : Within(s, <<"set", Digits[i]>>)
                ELSE IF SetsBegun = 0 THEN 1 ELSE SetsBegun

------------------------------------------------------------------------------
(* The parsers, one for every sport of a feed.                              *)

Told(status, period, seconds, points) ==
  [status |-> status, period |-> period, seconds |-> seconds, score |-> points]
IfLive(status, x) == IF status = "LIVE" THEN x ELSE None

\* Before the start the feed has "?" or nothing for a score; sets count from 0.
Points == IF at \in {"before", "off"} THEN None ELSE score

Handball == Told(TextStatus(Label), HalfPeriod(Label), None, Points)
Rugby == Told(TextStatus(Label), HalfPeriod(Label),
              IfLive(TextStatus(Label), RugbySeconds(Label)), Points)
Esports == Told(EsportsStatus(Label), None, None, score)

\* No score of a fight before it is over: 1 for who won, 0 for who lost.
WinnerSide == IF at # "over" THEN None
              ELSE IF score.home = 1 THEN "home" ELSE IF score.away = 1 THEN "away" ELSE None
FightScores(status, side) ==
  IF status # "ENDED" \/ side = None THEN None
  ELSE [home |-> IF side = "home" THEN 1 ELSE 0, away |-> IF side = "away" THEN 1 ELSE 0]
Boxing == Told(TextStatus(Label), None, None, FightScores(TextStatus(Label), WinnerSide))
Mma == Told(TextStatus(Label), None, None, FightScores(TextStatus(Label), WinnerSide))

Golf == Told(TextStatus(Label), None, None, None)
Motorsport == Told(TextStatus(Label), None, None, None)
\* results of a race are there when it is over, and nothing else is looked at.
HorseRacing == Told(IF at = "over" THEN "ENDED" ELSE "SCHEDULED", None, None, None)

Soccer == Told(SoccerStatus(Label), None,
               IfLive(SoccerStatus(Label), SoccerSeconds(Label)), Points)
Basketball == LET st == XmlStatus(Label) IN
  Told(st, IfLive(st, QuarterOf(Label)), IfLive(st, BasketballSeconds(Label)), Points)
PeriodsPlayed == IF at \in {"play", "extra"} THEN n - 1 ELSE n
Hockey == LET st == XmlStatus(Label) IN
  Told(st, None, IfLive(st, HockeySeconds(Label, PeriodsPlayed)), Points)
Baseball == LET st == XmlStatus(Label) IN
  Told(st, IfLive(st, <<Inning(Label), HalfInning(Label)>>), None, Points)
Tennis == LET st == TextStatus(Label) IN
  Told(st, IfLive(st, SetOf(SetsBegun, SetsDecided)), None, score)
Volleyball == LET st == TextStatus(Label) IN
  Told(st, IfLive(st, SetOf(SetsBegun, SetsDecided)), None, Points)
AmFootball == Told(TextStatus(Label), None, None, Points)
TableTennis == Told(TextStatus(Label), None, None, Points)

Livescore ==
  CASE sport = "soccer" -> Soccer [] sport = "basketball" -> Basketball
    [] sport = "hockey" -> Hockey [] sport = "baseball" -> Baseball
    [] sport = "tennis" -> Tennis [] sport = "table-tennis" -> TableTennis
    [] sport = "esports" -> Esports [] sport = "handball" -> Handball
    [] sport = "rugby" -> Rugby [] sport = "volleyball" -> Volleyball
    [] sport = "american-football" -> AmFootball
    [] sport = "boxing" -> Boxing [] sport = "mma" -> Mma
    [] sport = "golf" -> Golf [] sport = "horse_racing" -> HorseRacing
    [] sport = "motorsport" -> Motorsport

\* team_info, and what stands in for it: info.score, or the row of totals.
TeamScore == IF how.bare THEN None ELSE Points
InfoScore == Points
ScoreOf == IF TeamScore # None THEN TeamScore ELSE InfoScore

InplaySoccer == Told(InplayStatus(InplayLabel), SoccerPeriod(InplayLabel), None, ScoreOf)
InplayBasketball == Told(InplayStatus(InplayLabel), QuarterOf(InplayLabel), None, ScoreOf)
InplayBaseball ==
  Told(InplayStatus(InplayLabel),
       <<IF at = "before" THEN None ELSE n, IF min = 0 THEN "top" ELSE "bottom">>, None, ScoreOf)
InplayHockey == Told(InplayStatus(InplayLabel), None, None, ScoreOf)
InplayAmFootball == Told(InplayStatus(InplayLabel), None, None, ScoreOf)
InplayTennis == Told(InplayStatus(InplayLabel), InplaySet(InplayLabel), None, score)
InplayVolleyball == Told(InplayStatus(InplayLabel), InplaySet(InplayLabel), None, score)
InplayEsports == Told(InplayStatus(InplayLabel), None, None, score)

Inplay ==
  CASE sport = "soccer" -> InplaySoccer [] sport = "basketball" -> InplayBasketball
    [] sport = "tennis" -> InplayTennis [] sport = "volleyball" -> InplayVolleyball
    [] sport = "esports" -> InplayEsports [] sport = "baseball" -> InplayBaseball
    [] sport = "hockey" -> InplayHockey [] sport = "american-football" -> InplayAmFootball

Says(feed) == IF feed = "inplay" THEN Inplay ELSE Livescore

------------------------------------------------------------------------------
(* The match.                                                               *)

Nil == [home |-> 0, away |-> 0]
Scored(s) == [score EXCEPT ![s] = @ + 1]
Tied == score.home = score.away

TypeOK ==
  /\ sport \in Sports
  /\ at \in {"before", "play", "break", "extra", "halted", "over", "off"}
  /\ ending \in {"played", "shootout", "decided"}
  /\ n \in 1 .. 11 /\ min \in 0 .. 2
  /\ score \in [home : 0 .. MaxScore, away : 0 .. MaxScore]
  /\ how \in Manner
  /\ left \in Nat \cup {None}

Init ==
  /\ sport \in Sports /\ at = "before" /\ n = 1 /\ min = 0 /\ score = Nil
  /\ ending = "played" /\ how \in Manner
  /\ left = None

Begin ==
  /\ at = "before"
  /\ at' \in {"play", "off"}
  /\ UNCHANGED <<sport, n, min, score, ending, how, left>>

\* Half of the period goes by: half an inning, or half the minutes.
Clock ==
  /\ at = "play"
  /\ min < (IF Length > 0 THEN 2 ELSE IF sport = "baseball" THEN 1 ELSE 0)
  /\ min' = min + 1
  /\ UNCHANGED <<sport, at, n, score, ending, how, left>>

Point(s) ==
  /\ at \in {"play", "extra"} /\ sport \notin Sets \cup Fights \cup Fields
  /\ score[s] < MaxScore
  /\ score' = Scored(s)
  /\ UNCHANGED <<sport, at, n, min, ending, how, left>>

PeriodEnds ==
  /\ at = "play" /\ sport \notin Sets \cup Fights
  /\ Length > 0 => min = 2
  /\ sport = "baseball" => min = 1
  /\ \/ n < Periods /\ at' = "break" /\ UNCHANGED <<n, min>>
     \/ /\ n = Periods /\ (Tied => sport \in Halves \cup Fields)
        /\ at' = "over" /\ UNCHANGED <<n, min>>
     \/ /\ n = Periods /\ Tied /\ sport \notin Fields
        /\ at' = "extra" /\ n' = n + 1 /\ min' = 0
  /\ UNCHANGED <<sport, score, ending, how, left>>

Resume ==
  /\ at = "break"
  /\ at' = "play" /\ n' = n + 1 /\ min' = 0
  /\ UNCHANGED <<sport, score, ending, how, left>>

SetEnds(s) ==
  /\ at = "play" /\ sport \in Sets
  /\ score' = Scored(s)
  /\ IF score'[s] = 2 THEN at' = "over" /\ n' = n ELSE at' = at /\ n' = n + 1
  /\ UNCHANGED <<sport, min, ending, how, left>>

FightEnds(s) ==
  /\ at = "play" /\ sport \in Fights
  /\ at' = "over" /\ score' = Scored(s)
  /\ UNCHANGED <<sport, n, min, ending, how, left>>

ExtraEnds ==
  /\ at = "extra"
  /\ \/ at' = "over" /\ n' = n
     \/ sport = "baseball" /\ n < 11 /\ at' = at /\ n' = n + 1
  /\ ending' = IF Tied /\ sport \in Shooting THEN "shootout" ELSE ending
  /\ UNCHANGED <<sport, min, score, how, left>>

Halt ==
  /\ at = "play" /\ sport \in Deciding
  /\ at' = "halted"
  /\ UNCHANGED <<sport, n, min, score, ending, how, left>>

GoOn ==
  /\ at = "halted"
  /\ at' = "play"
  /\ UNCHANGED <<sport, n, min, score, ending, how, left>>

\* One side walks over, retires, or is awarded the match.
Decide ==
  /\ at \in {"before", "play", "halted"} /\ sport \in Deciding
  /\ at' = "over" /\ ending' = "decided"
  /\ UNCHANGED <<sport, n, min, score, how, left>>

\* The livescore feed is fetched.
Poll ==
  /\ left' = Livescore.seconds
  /\ UNCHANGED <<sport, at, n, min, score, ending, how>>

Side == {"home", "away"}
Next ==
  \/ Begin \/ Clock \/ PeriodEnds \/ Resume \/ ExtraEnds \/ Halt \/ GoOn \/ Decide \/ Poll
  \/ \E s \in Side : Point(s) \/ SetEnds(s) \/ FightEnds(s)

Spec == Init /\ [][Next]_vars

------------------------------------------------------------------------------
\* What of the match is the period that a feed may name, in its terms.
PeriodNow ==
  IF sport = "baseball" THEN <<n, IF min = 0 THEN "top" ELSE "bottom">> ELSE n

\* The ends the parsers have no text for: livescore's "Pen.", "After Penalties"
\* and any decision but one of esports, inplay's decisions that no flag tells; and
\* the halt inplay tells by its text, in which "ended" stands.
Untold(f) ==
  /\ at = "over"
  /\ IF f = "livescore" THEN ending = "shootout" \/ (ending = "decided" /\ sport # "esports")
     ELSE ending = "decided" /\ ~how.flagged
Misread(f) == f = "inplay" /\ at = "halted" /\ ~how.stopped

\* What a feed says of a match is so: it has ended when it is over and at no
\* other time (but for the ends above, which are not told, and the halt, which is
\* taken for one), is live or paused from the start to the end of regular time,
\* breaks included (a horse race excepted, of which nothing is known until its
\* results), is called off only if it is; the period named while it is played is
\* the one that is played, and the score is the score, of a fight the winner's.
\* (_text_status, _xml_status, _soccer_status, _map_status and the parsers)
SaidAsPlayed ==
  \A f \in Feeds : LET e == Says(f) IN
    /\ e.status = "ENDED" => at = "over" \/ Misread(f)
    /\ at = "over" => e.status = "ENDED" \/ Untold(f)
    /\ e.status = "CANCELLED" => at = "off"
    /\ at = "before" => e.status = "SCHEDULED"
    /\ at \in {"play", "break"} /\ sport # "horse_racing" => e.status \in {"LIVE", "PAUSED"}
    /\ at = "play" /\ e.period # None => e.period = PeriodNow
    /\ at \notin {"before", "off"} /\ e.score # None => e.score = score
    /\ sport \in Fights => (e.score # None) = (at = "over")

=============================================================================
