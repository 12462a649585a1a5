----------------------------- MODULE PaperDrill -----------------------------
(***************************************************************************)
(* A virtual trade on live data (app/virtual_paper_trading.py): the market  *)
(* the analyst names, or every market of the registry, is scanned token by *)
(* token for a plan that may be executed at once; the first one is traded   *)
(* by a decision worker of its own on a clone of the account and a ledger   *)
(* of its own; without one the best rejected candidate is shown, with a     *)
(* sample of the rejections.  The scan awaits the exchange for books the    *)
(* stream does not have, and everything it reads may move meanwhile.        *)
(***************************************************************************)
EXTENDS Integers, FiniteSets, SequencesExt

CONSTANTS
    Registry,     \* the markets in the registry's order, each the sequence of its tokens
    Faces,        \* what a refusal shows: [family, status, reason]
    RestBudget,   \* books a scan may ask the exchange for
    SampleLimit,  \* rejections an answer shows
    MaxMoves,     \* bound: changes of the streamed books
    None

Tokens == UNION {Range(market) : market \in Range(Registry)}
Books == {"missing", "no_ask", "ask"}

VARIABLES
    request,   \* what the analyst names: [market, token], either may be None
    books,     \* the streamed book of each token
    moves,     \* bound
    scan,      \* the scan: what it has left, its funnel, the candidate to show
    rejected,  \* the rejections, in order
    drill      \* the trade and the answer

vars == <<request, books, moves, scan, rejected, drill>>

----------------------------------------------------------------------------
(* The ranks, lowest first.  Reasons that are not listed count as one.      *)

FamilyRank(family) == CASE family = "single_game" -> 0 [] family = "" -> 2 [] OTHER -> 1

StatusRank(status) ==
    CASE status = "live" -> 0
      [] status = "paused" -> 1
      [] status = "scheduled" -> 2
      [] status \in {"ended", "cancelled", "postponed", "retired"} -> 3
      [] status \in {"", "unknown"} -> 5
      [] OTHER -> 4

Diagnostic == <<"stale_game_state", "missing_live_game_state", "missing_best_ask",
                "liquidity_below_min", "spread_above_max", "price_above_entry_max",
                "tennis_not_late_enough", "outcome_not_locked", "open_exit_detected",
                "game_not_live">>

ReasonRank(reason) ==
    IF Contains(Diagnostic, reason) THEN CHOOSE i \in DOMAIN Diagnostic : Diagnostic[i] = reason
    ELSE 1 + Len(Diagnostic)

RankOf(face) == <<FamilyRank(face.family), StatusRank(face.status), ReasonRank(face.reason)>>

Below(r, s) ==
    \E i \in 1 .. 3 : r[i] < s[i] /\ \A k \in 1 .. i - 1 : r[k] = s[k]

(* _selection_is_better *)
IsBetter(face, shown) == shown = None \/ Below(RankOf(face), RankOf(shown.face))

----------------------------------------------------------------------------
(* _sample_rejections: by rank, one of each kind first, then the others.    *)

Ranked(list) ==
    FoldLeft(LAMBDA done, r :
                LET before(q) == ~Below(RankOf(r.face), RankOf(q.face))
                    after(q) == ~before(q)
                IN  SelectSeq(done, before) \o <<r>> \o SelectSeq(done, after),
             <<>>, list)

KindOf(r) == <<r.face.reason, r.face.family, r.stage>>

FirstOfKind(list) ==
    FoldLeft(LAMBDA done, r :
                IF \E q \in Range(done) : KindOf(q) = KindOf(r) THEN done ELSE Append(done, r),
             <<>>, list)

UpTo(limit, list) == SubSeq(list, 1, IF Len(list) < limit THEN Len(list) ELSE limit)

Sample(list) ==
    LET first == FirstOfKind(Ranked(list))
        repeats(r) == r \notin Range(first)
    IN  UpTo(SampleLimit, first \o SelectSeq(Ranked(list), repeats))

----------------------------------------------------------------------------
(* _resolve_market: the condition, then the token.  An answer of a name     *)
(* that is unknown falls through to the next name.                          *)

Unknown == <<>>                    \* a market of which neither registry nor database knows
Named(r) ==
    IF r.market \notin {None, Unknown} THEN r.market
    ELSE IF \E market \in Range(Registry) : r.token \in Range(market)
         THEN CHOOSE market \in Range(Registry) : r.token \in Range(market)
         ELSE None

(* The tokens a scan visits; a named token leaves out the others. *)
Visits(r) ==
    LET source == IF Named(r) # None THEN Named(r) ELSE FlattenSeq(Registry)
        asked(t) == r.token \in {None, t}
    IN  SelectSeq(source, asked)

Requests ==
    [market : {None, Unknown} \cup Range(Registry), token : {None} \cup Tokens]

NoFunnel == [evaluated |-> 0, unavailable |-> 0, available |-> 0, rest |-> 0, selected |-> 0]

Init ==
    /\ request \in Requests
    /\ books \in [Tokens -> Books]
    /\ moves = 0
    /\ rejected = <<>>
    /\ LET unfound == request # [market |-> None, token |-> None] /\ Named(request) = None
       IN  /\ scan = [at |-> IF unfound THEN "over" ELSE "scan",
                      left |-> IF unfound THEN <<>> ELSE Visits(request),
                      budget |-> RestBudget, funnel |-> NoFunnel, shown |-> None,
                      kept |-> "missing"]
           /\ drill = [token |-> None, charged |-> FALSE, status |-> None,
                       answer |-> IF unfound THEN "not_found" ELSE None]

(* The stream goes on whenever the scan or the worker awaits. *)
BookMoves(t, book) ==
    /\ moves < MaxMoves
    /\ scan.at = "rest" \/ drill.answer = "trading"
    /\ books[t] # book
    /\ books' = [books EXCEPT ![t] = book]
    /\ moves' = moves + 1
    /\ UNCHANGED <<request, scan, rejected, drill>>

(* What the decider may say of a book; without an ask it never buys. *)
Executable == [family |-> "single_game", status |-> "live", reason |-> "auto_execute"]
Verdicts(book) == IF book = "ask" THEN Faces \cup {Executable} ELSE Faces

(* Mutant: the remaining budget the fallback returns is dropped. *)
SpentNever(budget) == budget

(* A book asked for costs the budget, whatever the answer. *)
Spent(budget) == IF scan.at = "rest" THEN budget - 1 ELSE budget

(* The rest of the loop's body, on the book that was found. *)
NoBook(funnel) ==
    /\ scan' = [scan EXCEPT !.at = "scan", !.left = Tail(@), !.budget = Spent(@),
                            !.funnel = [funnel EXCEPT !.unavailable = @ + 1]]
    /\ rejected' = Append(rejected,
            [token |-> Head(scan.left), stage |-> "orderbook",
             face |-> [family |-> "unknown", status |-> "unknown",
                       reason |-> "orderbook_unavailable"]])
    /\ UNCHANGED drill

Refused(funnel, face) ==
    LET token == Head(scan.left)
    IN  /\ scan' = [scan EXCEPT !.at = "scan", !.left = Tail(@), !.budget = Spent(@),
                        !.funnel = [funnel EXCEPT !.available = @ + 1, !.evaluated = @ + 1],
                        !.shown = IF IsBetter(face, @) THEN [token |-> token, face |-> face] ELSE @]
        /\ rejected' = Append(rejected, [token |-> token, stage |-> "plan", face |-> face])
        /\ UNCHANGED drill

Selected(funnel) ==
    /\ scan' = [scan EXCEPT !.at = "over", !.left = Tail(@), !.budget = Spent(@),
                    !.funnel = [funnel EXCEPT !.available = @ + 1, !.evaluated = @ + 1,
                                              !.selected = @ + 1]]
    /\ drill' = [drill EXCEPT !.token = Head(scan.left), !.answer = "trading"]
    /\ UNCHANGED rejected

Evaluate(book, funnel) ==
    \/ book = "missing" /\ NoBook(funnel)
    \/ /\ book # "missing"
       /\ \E face \in Verdicts(book) :
            \/ face = Executable /\ Selected(funnel)
            \/ face # Executable /\ Refused(funnel, face)

(* A token the stream has an ask for, or that nothing is left to ask for. *)
Visit ==
    /\ scan.at = "scan" /\ scan.left # <<>>
    /\ LET book == books[Head(scan.left)]
       IN  /\ book = "ask" \/ scan.budget <= 0
           /\ Evaluate(book, scan.funnel)
    /\ UNCHANGED <<request, books, moves>>

(* Otherwise the exchange is asked; what the stream had is kept for a failure. *)
AskExchange ==
    /\ scan.at = "scan" /\ scan.left # <<>>
    /\ books[Head(scan.left)] # "ask"
    /\ scan.budget > 0
    /\ scan' = [scan EXCEPT !.at = "rest", !.kept = books[Head(scan.left)]]
    /\ UNCHANGED <<request, books, moves, rejected, drill>>

(* Its answer; one it fails to give costs the budget and is not counted. *)
Answered(funnel) == [funnel EXCEPT !.rest = @ + 1]

ExchangeAnswers ==
    /\ scan.at = "rest"
    /\ \/ \E book \in {"no_ask", "ask"} : Evaluate(book, Answered(scan.funnel))
       \/ Evaluate(scan.kept, scan.funnel)
    /\ UNCHANGED <<request, books, moves>>

(* Nothing left to scan: the best refusal is shown, if there is one. *)
EndScan ==
    /\ scan.at = "scan" /\ scan.left = <<>>
    /\ scan' = [scan EXCEPT !.at = "over"]
    /\ drill' = [drill EXCEPT !.answer = "no_trade"]
    /\ UNCHANGED <<request, books, moves, rejected>>

----------------------------------------------------------------------------
(* _result_payload: only a full fill is a success. *)
Fill(status) ==
    drill' = [drill EXCEPT !.answer = IF status = "FULL_FILL" THEN "ok" ELSE "failed",
                           !.charged = (status \in {"FULL_FILL", "PARTIAL_FILL"}),
                           !.status = status]

(* The trade: the worker plans again, on the streamed book alone, on the     *)
(* cloned account; its gates and its risk check may say no.                  *)
Plan ==
    /\ drill.answer = "trading" /\ drill.status = None
    /\ \/ drill' = [drill EXCEPT !.answer = "failed"]
       \/ books[drill.token] = "ask" /\ drill' = [drill EXCEPT !.status = "signing"]
    /\ UNCHANGED <<request, books, moves, scan, rejected>>

(* The order is signed by the real client and matched against the book the   *)
(* stream has by then.                                                       *)
Submit ==
    /\ drill.answer = "trading" /\ drill.status = "signing"
    /\ \E status \in IF books[drill.token] = "ask" THEN {"FULL_FILL", "PARTIAL_FILL", "NO_FILL"}
                     ELSE {"NO_FILL"} : Fill(status)
    /\ UNCHANGED <<request, books, moves, scan, rejected>>

(* asyncio.wait_for: five seconds for all of it, and no answer at all. *)
TimesOut ==
    /\ drill.answer = "trading"
    /\ drill' = [drill EXCEPT !.answer = "error"]
    /\ UNCHANGED <<request, books, moves, scan, rejected>>

Next ==
    \/ \E t \in Tokens, book \in Books : BookMoves(t, book)
    \/ Visit
    \/ AskExchange
    \/ ExchangeAnswers
    \/ EndScan
    \/ Plan
    \/ Submit
    \/ TimesOut

Spec == Init /\ [][Next]_vars

----------------------------------------------------------------------------
TypeOK ==
    /\ request \in Requests
    /\ books \in [Tokens -> Books]
    /\ moves \in 0 .. MaxMoves
    /\ scan.at \in {"scan", "rest", "over"}
    /\ scan.budget \in 0 .. RestBudget
    /\ drill.token \in Tokens \cup {None}
    /\ drill.answer \in {None, "not_found", "trading", "no_trade", "ok", "failed", "error"}

(* Every token a scan was to visit is in its funnel exactly once, as evaluated *)
(* or as one without a book, also when books move and the exchange fails under *)
(* it: an executed scan ends at its candidate, a completed one has none left.  *)
(* The exchange is never asked more often than its budget.                     *)
FunnelAddsUp ==
    LET f == scan.funnel
    IN  /\ f.evaluated = f.available
        /\ f.evaluated + f.unavailable + Len(scan.left)
               = IF drill.answer = "not_found" THEN 0 ELSE Len(Visits(request))
        /\ f.selected = IF drill.token = None THEN 0 ELSE 1
        /\ Len(rejected) + f.selected = f.evaluated + f.unavailable
        /\ f.rest <= RestBudget - scan.budget

(* What the analyst is shown instead of a trade is the first of the best        *)
(* ranked refusals, and the sample has as many kinds of rejection as fit.       *)
ShownIsBest ==
    drill.answer = "no_trade" =>
        LET plans == {i \in DOMAIN rejected : rejected[i].stage = "plan"}
            best(i) == \A k \in plans :
                          /\ ~Below(RankOf(rejected[k].face), RankOf(rejected[i].face))
                          /\ k < i => RankOf(rejected[k].face) # RankOf(rejected[i].face)
        IN  IF plans = {} THEN scan.shown = None
            ELSE \E i \in plans : best(i) /\ scan.shown = [token |-> rejected[i].token,
                                                           face |-> rejected[i].face]

SampleIsWide ==
    LET kinds(list) == {KindOf(r) : r \in Range(list)}
        few(n) == IF n < SampleLimit THEN n ELSE SampleLimit
        sample == Sample(rejected)
    IN  drill.answer = "no_trade" =>
            /\ Len(sample) = few(Len(rejected))
            /\ Range(sample) \subseteq Range(rejected)
            /\ Cardinality(kinds(sample)) = few(Cardinality(kinds(rejected)))

(* A drill answers "ok" only for the candidate the scan selected, after a full  *)
(* fill that its own ledger paid for.                                           *)
OkIsFilled ==
    drill.answer = "ok" => /\ scan.funnel.selected = 1
                           /\ drill.charged /\ drill.status = "FULL_FILL"
=============================================================================
