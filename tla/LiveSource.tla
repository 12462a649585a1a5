----------------------------- MODULE LiveSource -----------------------------
(***************************************************************************)
(* Live scores of one sport, from the provider's feed to the record a      *)
(* decision reads: the polling client (inplay or livescore), the feeder    *)
(* that copies the client's cache into the bucket of the sport, the match  *)
(* service that runs on every copy, the subscriptions kept by the          *)
(* lifecycle binder, the index of matched events and the metadata store.   *)
(*                                                                         *)
(* Everything runs on the event loop; a step is the code between two       *)
(* awaits.  A snapshot is the time `taken` at which the provider wrote it  *)
(* and the matches it shows: scores are as old as `taken`.                 *)
(***************************************************************************)
EXTENDS Integers, Sequences, FiniteSets

CONSTANTS
    Markets,        \* condition ids
    Feed,           \* the provider's matches in the order the feed lists them
    Keys,           \* what candidate filtering depends on: sport codes and start time
    KeyOf,          \* the key of a market
    Near,           \* the matches that start near a key's start time
    Fits,           \* the matches whose teams a market names
    Accepted,       \* those the calibrator accepts
    TokenIsCode,    \* the sport's feed token is its code ("tennis", not "soccer")
    Tasks,          \* poll tasks the client may ever create
    UnknownCap,     \* unknown matches parsed per fetch (50)
    NoMatch,
    MaxClock        \* bound: how often the feed changes

Matches == {Feed[i] : i \in DOMAIN Feed}

ASSUME BoundsAssumption == UnknownCap \in Nat /\ MaxClock \in Nat
ASSUME TasksAssumption == Tasks # {}
ASSUME TablesAssumption ==
    /\ KeyOf \in [Markets -> Keys] /\ Near \in [Keys -> SUBSET Matches]
    /\ Fits \in [Markets -> SUBSET Matches]
    /\ Accepted \in [Markets -> SUBSET Matches]
    /\ NoMatch \notin Matches

VARIABLES
    provider,   \* which client serves the sport: "inplay" or "livescore"
    clock,      \* writes of the feed so far
    live,       \* matches now on the feed
    listed,     \* markets in the market registry
    active,     \* markets for which is_market_live_active holds
    subs,       \* subscribers of the sport in LiveSourceRegistry
    task,       \* the client's poll tasks
    answer,     \* what a poll task decodes
    backoff,    \* a 429 holds the inplay task back
    cache,      \* the snapshot list_events returns
    bucket,     \* the sport's bucket in LiveStateStore
    filter,     \* the workflow's cache of candidates, keyed by the identity of a tuple
    tracked,    \* TrackedEventIndex: matches of the sport that are tracked
    matched,    \* TrackedEventIndex: the match of a condition
    record      \* MarketMetadataStore: live state of a market

vars == <<provider, clock, live, listed, active, subs, task, answer, backoff, cache, bucket,
          filter, tracked, matched, record>>
client == <<task, answer, backoff, cache>>
universe == <<listed, active, subs>>
knowledge == <<tracked, matched, record>>

Snapshots == [taken : 0..MaxClock, matches : SUBSET Matches]
NoRecord == [match |-> NoMatch, taken |-> 0]
NothingKept == [k \in Keys |-> {}]

TypeOK ==
    /\ provider \in {"inplay", "livescore"}
    /\ clock \in 0..MaxClock /\ live \subseteq Matches
    /\ listed \subseteq Markets /\ active \subseteq Markets /\ subs \subseteq Markets
    /\ task \in [Tasks -> {"none", "due", "asked", "answered"}]
    /\ answer \in [Tasks -> Snapshots]
    /\ backoff \in BOOLEAN
    /\ cache \in Snapshots /\ bucket \in Snapshots
    /\ filter \in [of : {"nothing", "bucket", "freed"}, kept : [Keys -> SUBSET Snapshots]]
    /\ tracked \subseteq Matches /\ matched \in [Markets -> Matches \cup {NoMatch}]
    /\ record \in [Markets -> [match : Matches \cup {NoMatch}, taken : 0..MaxClock]]

Empty == [taken |-> 0, matches |-> {}]

Init ==
    /\ provider \in {"inplay", "livescore"}
    /\ clock = 0 /\ live = {}
    /\ listed = {} /\ active = {} /\ subs = {}
    /\ task = [t \in Tasks |-> "none"] /\ answer = [t \in Tasks |-> Empty] /\ backoff = FALSE
    /\ cache = Empty /\ bucket = Empty
    /\ filter = [of |-> "nothing", kept |-> NothingKept]
    /\ tracked = {} /\ matched = [m \in Markets |-> NoMatch]
    /\ record = [m \in Markets |-> NoRecord]

-----------------------------------------------------------------------------
(* The provider and the passage of time.                                   *)

FeedMoves ==
    /\ clock < MaxClock
    /\ clock' = clock + 1
    /\ live' \in SUBSET Matches
    /\ UNCHANGED <<provider, universe, client, bucket, filter, knowledge>>

\* A market nears its start, or its game window ends.
ActivityTurns(m) ==
    /\ active' = IF m \in active THEN active \ {m} ELSE active \cup {m}
    /\ UNCHANGED <<provider, clock, live, listed, subs, client, bucket, filter, knowledge>>

-----------------------------------------------------------------------------
(* Markets enter and leave; the binder subscribes.                         *)

\* The registry's upsert of a new market calls on_market_added.
MarketAdded(m) ==
    /\ m \notin listed
    /\ listed' = listed \cup {m}
    /\ subs' = IF m \in active THEN subs \cup {m} ELSE subs
    /\ UNCHANGED <<provider, clock, live, active, client, bucket, filter, knowledge>>

\* TrackedEventIndex.remove_for_market: a match another condition shares stays.
Shared(m) == \E other \in Markets \ {m} : matched[other] = matched[m]
UntrackedThoughShared(m) == tracked \ {matched[m]}
StillTracked(m) == IF Shared(m) THEN tracked ELSE tracked \ {matched[m]}

\* Mutant: the metadata outlives its market.
MetadataStays(m) ==
    /\ m \in listed
    /\ listed' = listed \ {m}
    /\ subs' = subs \ {m}
    /\ tracked' = StillTracked(m)
    /\ matched' = [matched EXCEPT ![m] = NoMatch]
    /\ UNCHANGED <<provider, clock, live, active, client, bucket, filter, record>>

\* The registry's removal calls the prune listeners one after the other.
MarketPruned(m) ==
    /\ m \in listed
    /\ listed' = listed \ {m}
    /\ subs' = subs \ {m}
    /\ tracked' = StillTracked(m)
    /\ matched' = [matched EXCEPT ![m] = NoMatch]
    /\ record' = [record EXCEPT ![m] = NoRecord]
    /\ UNCHANGED <<provider, clock, live, active, client, bucket, filter>>

\* reconcile_subscriptions, every two seconds and after each discovery round.
Reconcile ==
    /\ subs' = listed \cap active
    /\ UNCHANGED <<provider, clock, live, listed, active, client, bucket, filter, knowledge>>

-----------------------------------------------------------------------------
(* The client: one poll task per sport (inplay) or per client (livescore). *)

Demanded == subs # {}

Ask(t) ==
    /\ task[t] = "due" /\ Demanded /\ ~backoff
    /\ task' = [task EXCEPT ![t] = "asked"]
    /\ UNCHANGED <<provider, clock, live, universe, answer, backoff, cache, bucket, filter, knowledge>>

\* The answer is on its way, or a thread decodes it.
Served(t) ==
    /\ task[t] = "asked"
    /\ task' = [task EXCEPT ![t] = "answered"]
    /\ answer' = [answer EXCEPT ![t] = [taken |-> clock, matches |-> live]]
    /\ UNCHANGED <<provider, clock, live, universe, backoff, cache, bucket, filter, knowledge>>

\* No answer, an error status or a body that cannot be decoded.  The inplay client keeps
\* its cache, and holds back after a 429; a livescore round goes on without the sport's
\* matches, unless the round as a whole timed out.
FetchFails(t) ==
    /\ task[t] \in {"asked", "answered"}
    /\ task' = [task EXCEPT ![t] = "due"]
    /\ answer' = [answer EXCEPT ![t] = Empty]
    /\ backoff' \in IF provider = "inplay" /\ task[t] = "asked" THEN {FALSE, TRUE} ELSE {FALSE}
    /\ cache' \in IF provider = "inplay" THEN {cache}
                  ELSE {cache, [taken |-> clock, matches |-> {}]}
    /\ UNCHANGED <<provider, clock, live, universe, bucket, filter, knowledge>>

\* A livescore round of other sports: its snapshot replaces the cache of this one too.
RoundWithout(t) ==
    /\ provider = "livescore" /\ task[t] = "due" /\ ~Demanded
    /\ cache' = [taken |-> clock, matches |-> {}]
    /\ UNCHANGED <<provider, clock, live, universe, task, answer, backoff, bucket, filter, knowledge>>

BackoffEnds ==
    /\ backoff /\ backoff' = FALSE
    /\ UNCHANGED <<provider, clock, live, universe, task, answer, cache, bucket, filter, knowledge>>

\* What the inplay parser finds in the index: it asks under the feed's token.
TrackedHere == IF TokenIsCode THEN tracked ELSE {}

Before(matches, e) == {f \in matches : \E i, j \in DOMAIN Feed : i < j /\ Feed[i] = f /\ Feed[j] = e}

\* Mutant: the parser has no index.
ParsedUntracked(matches) == {e \in matches : Cardinality(Before(matches, e)) < UnknownCap}

\* parse_goalserve_inplay: every tracked match and the first UnknownCap others.
Parsed(matches) ==
    {e \in matches : e \in TrackedHere
                       \/ Cardinality(Before(matches \ TrackedHere, e)) < UnknownCap}

StoreAnswer(t) ==
    /\ task[t] = "answered"
    /\ cache' = IF provider = "inplay" THEN [answer[t] EXCEPT !.matches = Parsed(@)]
                ELSE answer[t]
    /\ task' = [task EXCEPT ![t] = "due"]
    /\ answer' = [answer EXCEPT ![t] = Empty]
    /\ backoff' = FALSE
    /\ UNCHANGED <<provider, clock, live, universe, bucket, filter, knowledge>>

-----------------------------------------------------------------------------
(* The feeder, the bucket and the match service: one step each second.     *)

\* list_events starts the poll task if none runs.
Running == {t \in Tasks : task[t] # "none"}
Idle == Tasks \ Running
StartOne == IF Idle = {} THEN task
            ELSE LET t == CHOOSE u \in Idle : TRUE IN [task EXCEPT ![t] = "due"]
Revived == IF Running # {} THEN task ELSE StartOne

\* The new tuple may lie where the tuple of the kept candidates lay, once that is freed;
\* the workflow then takes it for the same tuple.
SameIdentity == IF filter.of = "freed" THEN {TRUE, FALSE} ELSE {FALSE}

CandidatesFor(k, same) ==
    IF same /\ filter.kept[k] # {} THEN filter.kept[k]
    ELSE {[cache EXCEPT !.matches = @ \cap Near[k]]}

FilterAfter(same) ==
    [of |-> "bucket",
     kept |-> [k \in Keys |-> IF \E m \in subs : KeyOf[m] = k THEN CandidatesFor(k, same)
                              ELSE IF same THEN filter.kept[k] ELSE {}]]

\* The snapshot a market is matched against, and the matches it may come out with.
SeenBy(m, same) == CHOOSE s \in CandidatesFor(KeyOf[m], same) : TRUE
Offered(m, same) ==
    LET fitting == SeenBy(m, same).matches \cap Fits[m]
    IN  IF fitting = {} THEN {NoMatch} ELSE fitting

\* The subscribers whose match the calibrator accepts.
Calibrated(pick) == {m \in subs : pick[m] \in Accepted[m]}

\* _apply_match for those.
Apply(pick, same) ==
    LET applied == Calibrated(pick) IN
    /\ record' = [m \in Markets |-> IF m \in applied
                                    THEN [match |-> pick[m], taken |-> SeenBy(m, same).taken]
                                    ELSE record[m]]
    /\ tracked' = tracked \cup {pick[m] : m \in applied}
    /\ matched' = [m \in Markets |-> IF m \in applied THEN pick[m] ELSE matched[m]]

MatchBucket(same) ==
    /\ cache.matches # {} /\ subs # {}
    /\ bucket' = cache
    /\ filter' = FilterAfter(same)
    /\ \E pick \in [subs -> Matches \cup {NoMatch}] :
         /\ \A m \in subs : pick[m] \in Offered(m, same)
         /\ Apply(pick, same)

\* Nothing to match or nobody to match: the old tuple is freed, the candidates stay.
ReplaceBucket ==
    /\ cache.matches = {} \/ subs = {}
    /\ bucket' = IF cache.matches # {} \/ subs # {} THEN cache ELSE bucket
    /\ filter' = IF bucket' # bucket /\ filter.of = "bucket"
                 THEN [filter EXCEPT !.of = "freed"] ELSE filter
    /\ UNCHANGED knowledge

Distribute(identities) ==
    /\ ReplaceBucket \/ \E same \in identities : MatchBucket(same)
    /\ task' = Revived
    /\ UNCHANGED <<provider, clock, live, universe, answer, backoff, cache>>

-----------------------------------------------------------------------------
Next ==
    \/ FeedMoves \/ Reconcile \/ BackoffEnds \/ Distribute(SameIdentity)
    \/ \E m \in Markets : ActivityTurns(m) \/ MarketAdded(m) \/ MarketPruned(m)
    \/ \E t \in Tasks : Ask(t) \/ Served(t) \/ FetchFails(t) \/ StoreAnswer(t) \/ RoundWithout(t)

Spec == Init /\ [][Next]_vars

\* Loops and timers run; a sport that is asked for again and again is served again and again,
\* and the feeder, which turns faster than the polls, sees what they stored.  Identities do not
\* coincide for ever.
Fairness ==
    /\ WF_vars(Reconcile) /\ WF_vars(Distribute({FALSE})) /\ WF_vars(BackoffEnds)
    /\ SF_vars(MatchBucket(FALSE) /\ Distribute({FALSE}))
    /\ WF_vars(\E t \in Tasks : Ask(t))
    /\ SF_vars(\E t \in Tasks : Served(t)) /\ SF_vars(\E t \in Tasks : StoreAnswer(t))
FairSpec == Spec /\ Fairness

-----------------------------------------------------------------------------
(* The match of a subscribed market is on the feed, alone fits its teams and start time, is *)
(* accepted, and is among the matches the parser takes.                                      *)
ItsMatches(m) == live \cap Near[KeyOf[m]] \cap Fits[m]
OnTheFeed(m) ==
    /\ m \in subs
    /\ \E e \in Accepted[m] : ItsMatches(m) = {e}
WithinReach(m) ==
    \/ provider = "livescore"
    \/ ItsMatches(m) \subseteq TrackedHere
    \/ Cardinality(live \ TrackedHere) <= UnknownCap

\* The match a market was matched with is parsed however long the feed is: while any market of
\* that match remains, the prune of another one leaves it in the index the parser reads.
MatchedStaysTracked == \A m \in Markets : matched[m] # NoMatch => matched[m] \in tracked

\* A market that left the registry leaves the subscriptions, the index and the metadata store
\* together, and an answer that was under way then brings none of them back.
NothingOfPruned ==
    \A m \in Markets \ listed : m \notin subs /\ matched[m] = NoMatch /\ record[m] = NoRecord

\* Scores keep coming: a subscribed market whose match stays on the feed within the parser's
\* reach ends up with the live state of the feed's last write, whatever fetches failed before.
FollowsTheMatch ==
    \A m \in Markets :
        <>[](OnTheFeed(m) /\ WithinReach(m))
        => <>[](record[m].match \in ItsMatches(m) /\ record[m].taken = clock)

=============================================================================
