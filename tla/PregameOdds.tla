---------------------------- MODULE PregameOdds ----------------------------
(***************************************************************************)
(* Pregame odds of one sport: the client that asks for the changes since a *)
(* timestamp (infra/sports/goalserve_pregame_client.py), the worker that   *)
(* writes the moneyline into the records of live markets                   *)
(* (pipeline/ingest/odds/goalserve_pregame_worker.py), and the store of    *)
(* these records with its aliases (runtime/market_metadata.py), which the  *)
(* live source writes too.  A market of the model has its own condition    *)
(* and shares its event with the other markets of the same match.          *)
(***************************************************************************)
EXTENDS Integers, Sequences

CONSTANTS
    Listed,       \* the markets in the registry's order
    GameOf(_),    \* the match a market is about; its event
    Quotes,       \* usable moneylines of a match
    MaxVersion,   \* bound: changes the provider makes
    MaxClock,     \* bound: live frames of a match
    Absent

ListedMarkets == {Listed[i] : i \in DOMAIN Listed}
Games == {GameOf(m) : m \in ListedMarkets}

MoneyLines == [quote : Quotes \cup {Absent}, at : 1 .. MaxVersion]
Records == [taken : 1 .. MaxClock, line : MoneyLines \cup {Absent}]

(* The registry is a list; no moneyline is the value for its absence. *)
ASSUME OddsAssumption ==
    /\ Listed \in Seq(ListedMarkets)
    /\ MaxVersion \in Nat \ {0} /\ MaxClock \in Nat
    /\ Absent \notin MoneyLines

VARIABLES
    feed,      \* the provider: version, and each match's moneyline with the version of its change
    worker,    \* _snapshots and _ts_by_sport
    clock,     \* the live state of each match
    accepted,  \* markets that calibration lets take the live state of their match
    records,   \* MarketMetadataStore._records
    alias      \* MarketMetadataStore._aliases: which market's record an event leads to

odds_vars == <<feed, worker, clock, accepted, records, alias>>

----------------------------------------------------------------------------
(* market_metadata.py *)

(* upsert: the record is replaced as a whole, its event's alias follows. *)
Put(store, m, record) ==
    [records |-> [store.records EXCEPT ![m] = record],
     alias |-> [store.alias EXCEPT ![GameOf(m)] = m]]

(* find: by the condition, then by the event. *)
Find(store, m) ==
    LET primary == store.alias[GameOf(m)]
    IN  IF store.records[m] # Absent THEN store.records[m]
        ELSE IF primary # Absent THEN store.records[primary] ELSE Absent

Store == [records |-> records, alias |-> alias]

----------------------------------------------------------------------------
(* goalserve_pregame_client.py *)

(* An answer has the matches that changed since ts, all of them without one. *)
Answer(ts) ==
    [g \in Games |-> IF feed.of[g].quote # Absent /\ feed.of[g].at > ts THEN feed.of[g] ELSE Absent]

NoAnswer == [g \in Games |-> Absent]      \* the snapshot of a request that failed

----------------------------------------------------------------------------
(* goalserve_pregame_worker.py *)

(* Mutant: the time of the round is kept, whatever came of it. *)
TsAfterRound(ts, failed) == feed.version

(* The timestamp of an answer; a failure has none, and the last one is kept. *)
TsAfter(ts, failed) == IF failed THEN ts ELSE feed.version

(* _write_pregame_metadata: every market whose record is found, and whose     *)
(* match is in the snapshot at hand, gets that record back with the moneyline, *)
(* one market after the other.                                                 *)
Refreshed(store, m, snapshot) ==
    LET record == Find(store, m)
    IN  IF record = Absent \/ snapshot[GameOf(m)] = Absent THEN store
        ELSE Put(store, m, [record EXCEPT !.line = snapshot[GameOf(m)]])

Written(snapshot) ==
    LET after[k \in 0 .. Len(Listed)] ==
            IF k = 0 THEN Store ELSE Refreshed(after[k - 1], Listed[k], snapshot)
    IN  after[Len(Listed)]

----------------------------------------------------------------------------
OddsInit ==
    /\ feed = [version |-> 1, of |-> [g \in Games |-> [quote |-> Absent, at |-> 1]]]
    /\ worker = [snapshot |-> NoAnswer, ts |-> 0]
    /\ clock = [g \in Games |-> 0]
    /\ accepted \in SUBSET ListedMarkets
    /\ records = [m \in ListedMarkets |-> Absent]
    /\ alias = [g \in Games |-> Absent]

(* The provider changes a moneyline, or suspends it. *)
QuoteChanges(g, quote) ==
    /\ feed.version < MaxVersion
    /\ feed.of[g].quote # quote
    /\ feed' = [version |-> feed.version + 1,
                of |-> [feed.of EXCEPT ![g] = [quote |-> quote, at |-> feed.version + 1]]]
    /\ UNCHANGED <<worker, clock, accepted, records, alias>>

(* LiveStateMatchService._apply_match for the markets that calibration accepts, *)
(* with a payload that has no pregame odds.                                     *)
Taken(store, m, g) ==
    IF GameOf(m) = g /\ m \in accepted THEN Put(store, m, [taken |-> clock[g] + 1, line |-> Absent])
    ELSE store

Applied(g) ==
    LET after[k \in 0 .. Len(Listed)] ==
            IF k = 0 THEN Store ELSE Taken(after[k - 1], Listed[k], g)
    IN  after[Len(Listed)]

(* A live frame of a match. *)
LiveFrame(g) ==
    /\ clock[g] < MaxClock
    /\ clock' = [clock EXCEPT ![g] = @ + 1]
    /\ records' = Applied(g).records /\ alias' = Applied(g).alias
    /\ UNCHANGED <<feed, worker, accepted>>

(* evict_market: the record, and its event's alias when that leads to it. *)
Evict(m) ==
    /\ records[m] # Absent
    /\ records' = [records EXCEPT ![m] = Absent]
    /\ alias' = [alias EXCEPT ![GameOf(m)] = IF @ = m THEN Absent ELSE @]
    /\ UNCHANGED <<feed, worker, clock, accepted>>

(* sync_once: the snapshot is replaced by the answer, which a request with a   *)
(* timestamp fills with changes only and a failed one with nothing.            *)
SyncOnce(failed) ==
    LET snapshot == IF failed THEN NoAnswer ELSE Answer(worker.ts)
        store == Written(snapshot)
    IN  /\ worker' = [snapshot |-> snapshot, ts |-> TsAfter(worker.ts, failed)]
        /\ records' = store.records /\ alias' = store.alias
        /\ UNCHANGED <<feed, clock, accepted>>

OddsNext ==
    \/ \E g \in Games, quote \in Quotes \cup {Absent} : QuoteChanges(g, quote)
    \/ \E g \in Games : LiveFrame(g)
    \/ \E m \in ListedMarkets : Evict(m)
    \/ \E failed \in BOOLEAN : SyncOnce(failed)

OddsSpec == OddsInit /\ [][OddsNext]_odds_vars

----------------------------------------------------------------------------
OddsTypeOK ==
    /\ feed \in [version : 1 .. MaxVersion, of : [Games -> MoneyLines]]
    /\ worker \in [snapshot : [Games -> MoneyLines \cup {Absent}], ts : 0 .. MaxVersion]
    /\ clock \in [Games -> 0 .. MaxClock]
    /\ accepted \in SUBSET ListedMarkets
    /\ records \in [ListedMarkets -> Records \cup {Absent}]
    /\ alias \in [Games -> ListedMarkets \cup {Absent}]

(* Incremental rounds lose no change of a moneyline that is shown: the line in *)
(* a record is the provider's latest one as soon as the worker's timestamp has *)
(* passed its change, whatever rounds failed in between and whichever record   *)
(* it was copied from; a suspended moneyline is the exception, it stays.       *)
LineIsCurrent ==
    \A m \in ListedMarkets :
        LET now == feed.of[GameOf(m)]
        IN  records[m] # Absent /\ now.quote # Absent /\ now.at <= worker.ts =>
                records[m].line \in {Absent, now}

=============================================================================
