-------------------------- MODULE MarketDiscovery --------------------------
(* The scan of Gamma's listings (pipeline/ingest/market_discovery/             *)
(* discovery_runner.py).  A job of the scheduler takes one tick every two      *)
(* seconds: a few pages of the queries in turn, then the whole event of one    *)
(* live match, then one market the account is exposed to.  A round is over     *)
(* when every query has come to its last page.                                 *)
EXTENDS Integers, Sequences, FiniteSets, SequencesExt

CONSTANTS
    Queries,        \* the queries, in the order of the rotation
    LiveQueries,    \* those that come and go with the live matches
    Pages,          \* how many pages Gamma lists under a query
    Exposures,      \* the markets the account may hold, in its own order
    Requests,       \* the pages of one tick
    Period,         \* ticks until a held market is due again
    Cooling,        \* ticks until the live event is due again
    RetryCap,       \* the longest wait after failures, in ticks
    Troubles        \* how often Gamma refuses or the world changes

VARIABLES
    scan,           \* FullMarketDiscoveryState, and where the tick stands
    rest,           \* the ticks since a held market, and the live event, were read
    world,          \* what the matches and the account say, and what goes wrong
    read            \* the page or the market the last answer told of

vars == <<scan, rest, world, read>>

Names == ToSet(Queries)
Markets == ToSet(Exposures)
Nothing == <<>>

Least(a, b) == IF a <= b THEN a ELSE b

TypeOK ==
    /\ scan \in [at : {"idle", "asleep", "scan", "page", "expand", "refresh"},
                 queries : SeqOf(Names, Len(Queries)),
                 names : SeqOf(Names, Len(Queries)),
                 cursor : [Names -> 0 .. 3], done : SUBSET Names,
                 next : 0 .. Len(Queries), requests : 0 .. Requests,
                 asked : Names, due : SeqOf(Markets, Len(Exposures)),
                 failures : 0 .. RetryCap, sleep : 0 .. RetryCap]
    /\ \A q \in Names : scan.cursor[q] < Pages[q]
    /\ rest \in [market : [Markets -> 0 .. Period], event : 0 .. Cooling]
    /\ world \in [live : BOOLEAN, held : SUBSET Markets, gone : SUBSET Markets,
                  well : BOOLEAN, troubles : 0 .. Troubles]
    /\ read \in {Nothing} \cup {<<q, i>> : q \in Names, i \in 1 .. 3} \cup {<<m>> : m \in Markets}

Init ==
    /\ scan = [at |-> "idle", queries |-> <<>>, names |-> <<>>, cursor |-> [q \in Names |-> 0], done |-> {},
               next |-> 0, requests |-> 0, asked |-> Queries[1], due |-> <<>>,
               failures |-> 0, sleep |-> 0]
    /\ rest = [market |-> [m \in Markets |-> Period], event |-> Cooling]
    /\ world = [live |-> FALSE, held |-> {}, gone |-> {}, well |-> FALSE, troubles |-> 0]
    /\ read = Nothing

-----------------------------------------------------------------------------
(* The world.  While Gamma is not well it may refuse any request, and the      *)
(* matches and the positions change; a market Gamma has taken off its list     *)
(* is no longer answered for.                                                  *)

Happens(after) ==
    /\ ~world.well /\ world.troubles < Troubles
    /\ world' = [after EXCEPT !.troubles = @ + 1]
    /\ UNCHANGED <<scan, rest, read>>

MatchStarts == ~world.live /\ Happens([world EXCEPT !.live = TRUE])
MatchEnds == world.live /\ Happens([world EXCEPT !.live = FALSE])
Exposed(m) == m \notin world.held /\ Happens([world EXCEPT !.held = @ \cup {m}])
Unexposed(m) == m \in world.held /\ Happens([world EXCEPT !.held = @ \ {m}])
TakenOff(m) == m \notin world.gone /\ Happens([world EXCEPT !.gone = @ \cup {m}])

GammaRecovers ==
    /\ ~world.well
    /\ world' = [world EXCEPT !.well = TRUE]
    /\ UNCHANGED <<scan, rest, read>>

Refuses ==
    /\ ~world.well /\ world.troubles < Troubles
    /\ world' = [world EXCEPT !.troubles = @ + 1]

-----------------------------------------------------------------------------
(* A tick.                                                                     *)

(* The queries of the live matches come first, the configured ones after them. *)
QueriesNow == IF world.live THEN Queries
              ELSE SelectSeq(Queries, LAMBDA q : q \notin LiveQueries)

Aged == [market |-> [m \in Markets |-> Least(rest.market[m] + 1, Period)],
         event |-> Least(rest.event + 1, Cooling)]

StartTick ==
    /\ scan.at = "idle"
    /\ scan' = [scan EXCEPT !.at = "scan", !.queries = QueriesNow, !.requests = 0]
    /\ rest' = Aged
    /\ UNCHANGED <<world, read>>

(* The tick that failed sleeps in the job itself.                              *)
Sleep ==
    /\ scan.at = "asleep"
    /\ scan' = [scan EXCEPT !.sleep = @ - 1, !.at = IF scan.sleep = 1 THEN "idle" ELSE @]
    /\ rest' = Aged
    /\ UNCHANGED <<world, read>>

(* The markets held or on order that are due, in the account's order.          *)
Due == SelectSeq(Exposures, LAMBDA m : m \in world.held /\ rest.market[m] = Period)

Refreshed(m) == [rest EXCEPT !.market[m] = 0]

(* finish_round: everything is to be read again.                               *)
RoundOver(s) ==
    [s EXCEPT !.cursor = [q \in Names |-> 0], !.done = {}, !.next = 0, !.failures = 0,
              !.at = "expand"]

(* next_query: the first query of the rotation that has pages left.  A new     *)
(* list of queries starts the rotation again, and what left the list is        *)
(* forgotten.                                                                  *)
Listed(s) ==
    [s EXCEPT !.next = IF s.names = s.queries THEN @ ELSE 0,
              !.names = s.queries,
              !.cursor = [q \in Names |-> IF q \in ToSet(s.queries) THEN @[q] ELSE 0],
              !.done = @ \cap ToSet(s.queries)]

Turn(s, k) == s.queries[1 + ((s.next + k) % Len(s.queries))]

Ask ==
    /\ scan.at = "scan" /\ scan.requests < Requests
    /\ LET s == Listed(scan)
           left == {k \in 0 .. Len(s.queries) - 1 : Turn(s, k) \notin s.done}
       IN  \/ left = {} /\ scan' = RoundOver(s)
           \/ \E k \in left :
                /\ \A l \in left : k <= l
                /\ scan' = [s EXCEPT !.at = "page", !.asked = Turn(s, k),
                                     !.next = (s.next + k + 1) % Len(s.queries)]
    /\ UNCHANGED <<rest, world, read>>

(* The budget of the tick is spent: its pages, its 200 ms (seen only between   *)
(* two requests) or its thousand markets.                                      *)
Enough ==
    /\ scan.at = "scan" /\ scan.requests > 0
    /\ scan' = [scan EXCEPT !.at = "expand"]
    /\ UNCHANGED <<rest, world, read>>

(* record_page: where the query goes on, or that it has come to its end; every *)
(* query of the list at its end ends the round.                                *)
Recorded(q) ==
    LET page == scan.cursor[q] + 1
    IN  IF page = Pages[q] THEN [scan EXCEPT !.cursor[q] = 0, !.done = @ \cup {q}]
        ELSE [scan EXCEPT !.cursor[q] = page]
QueriesOfRoundByDefault == 1
QueriesOfRound == Len(scan.queries)

PageArrives ==
    /\ scan.at = "page"
    /\ read' = <<scan.asked, scan.cursor[scan.asked] + 1>>
    /\ LET s == [Recorded(scan.asked) EXCEPT !.requests = @ + 1, !.at = "scan"]
       IN  scan' = IF Cardinality(s.done) >= QueriesOfRound THEN RoundOver(s) ELSE s
    /\ UNCHANGED <<rest, world>>

(* The event of a live match is read whole, once in a while.                   *)
Expanding == scan.at = "expand" /\ world.live /\ rest.event = Cooling

ExpandEvent ==
    /\ Expanding
    /\ scan' = [scan EXCEPT !.at = "refresh", !.due = Due]
    /\ rest' = [rest EXCEPT !.event = 0]
    /\ UNCHANGED <<world, read>>

NothingToExpand ==
    /\ scan.at = "expand" /\ ~Expanding
    /\ scan' = [scan EXCEPT !.at = "refresh", !.due = Due]
    /\ UNCHANGED <<rest, world, read>>

(* Any other error counts, and the job sleeps: 5, 10, 20 ... seconds, capped.   *)
(* A success does not take the count back, only the end of a round.            *)
RequestFails ==
    /\ scan.at = "page" \/ Expanding
    /\ Refuses
    /\ LET n == Least(scan.failures + 1, RetryCap)
       IN  scan' = [scan EXCEPT !.at = "asleep", !.failures = n, !.sleep = n]
    /\ UNCHANGED <<rest, read>>

(* An error of Gamma's own (5xx) is not counted: the round starts again.       *)
ServerFails ==
    /\ scan.at = "page" \/ Expanding
    /\ Refuses
    /\ scan' = [RoundOver(scan) EXCEPT !.at = "idle"]
    /\ UNCHANGED <<rest, read>>

-----------------------------------------------------------------------------
(* One of the markets that are due, in the account's order: a request that     *)
(* fails, or that Gamma has no market for, is passed over and stays due.       *)

RefreshMarket ==
    /\ scan.at = "refresh" /\ scan.due # <<>>
    /\ LET m == Head(scan.due)
       IN  /\ m \notin world.gone
           /\ read' = <<m>>
           /\ rest' = Refreshed(m)
    /\ scan' = [scan EXCEPT !.at = "idle", !.due = <<>>]
    /\ UNCHANGED world

PassOver ==
    /\ scan.at = "refresh" /\ scan.due # <<>>
    /\ \/ Head(scan.due) \in world.gone /\ UNCHANGED world
       \/ Refuses
    /\ scan' = [scan EXCEPT !.due = Tail(@)]
    /\ UNCHANGED <<rest, read>>

EndTick ==
    /\ scan.at = "refresh" /\ scan.due = <<>>
    /\ scan' = [scan EXCEPT !.at = "idle"]
    /\ UNCHANGED <<rest, world, read>>

-----------------------------------------------------------------------------

Tick == StartTick \/ Sleep \/ Ask \/ Enough \/ PageArrives \/ ExpandEvent \/ NothingToExpand
            \/ RefreshMarket \/ PassOver \/ EndTick

Environment ==
    \/ MatchStarts \/ MatchEnds \/ GammaRecovers \/ RequestFails \/ ServerFails
    \/ \E m \in Markets : Exposed(m) \/ Unexposed(m) \/ TakenOff(m)

Next == Tick \/ Environment

Spec == Init /\ [][Next]_vars

(* The scheduler runs the job for as long as the process lives, and while      *)
(* Gamma is well every request is answered.                                    *)
FairSpec == Spec /\ WF_vars(Tick)

-----------------------------------------------------------------------------
(* The hazard of a rotation that keeps its place in four fields and loses it   *)
(* at every error: some page comes last for ever.  Once Gamma answers, each    *)
(* page of each configured query is read again and again, however the budget   *)
(* of the ticks cuts the round.                                                *)
EveryPageRead ==
    \A q \in Names \ LiveQueries : \A i \in 1 .. Pages[q] : world.well ~> (read = <<q, i>>)

=============================================================================
