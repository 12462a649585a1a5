-------------------------- MODULE LiveSourceProofs --------------------------
(* Proofs about LiveSource: types, and that the index, the subscriptions and  *)
(* the metadata store follow the registry.                                    *)
EXTENDS LiveSource, TLAPS

\* What a step of the feeder relies on: only listed markets subscribe.
IInv ==
    /\ TypeOK
    /\ subs \subseteq listed
    /\ MatchedStaysTracked
    /\ NothingOfPruned

\* What the steps away from the registry and the match service leave alone.
Kept == UNCHANGED <<listed, subs, tracked, matched, record>>

LEMMA KeptInvariant == IInv /\ TypeOK' /\ Kept => IInv'
BY DEF IInv, Kept, MatchedStaysTracked, NothingOfPruned

LEMMA SnapshotTypes ==
    /\ Empty \in Snapshots
    /\ \A s \in Snapshots, kept \in SUBSET Matches : [s EXCEPT !.matches = kept] \in Snapshots
    /\ \A c \in 0..MaxClock, kept \in SUBSET Matches : [taken |-> c, matches |-> kept] \in Snapshots
BY BoundsAssumption DEF Empty, Snapshots

LEMMA ParsedType == \A kept \in SUBSET Matches : Parsed(kept) \in SUBSET Matches
BY DEF Parsed

\* A market is matched against one snapshot, with candidates kept from before or not.
LEMMA CandidatesType ==
    ASSUME TypeOK, NEW k \in Keys, NEW same \in BOOLEAN
    PROVE  CandidatesFor(k, same) # {} /\ CandidatesFor(k, same) \in SUBSET Snapshots
<1>1. filter.kept[k] \in SUBSET Snapshots
  BY DEF TypeOK
<1>2. [cache EXCEPT !.matches = @ \cap Near[k]] \in Snapshots
  BY TablesAssumption DEF TypeOK, Snapshots
<1>3. CASE same /\ filter.kept[k] # {}
  BY <1>1, <1>3 DEF CandidatesFor
<1>4. CASE ~(same /\ filter.kept[k] # {})
  BY <1>2, <1>4 DEF CandidatesFor
<1>5. QED BY <1>3, <1>4

LEMMA SeenType ==
    ASSUME TypeOK, NEW m \in Markets, NEW same \in BOOLEAN
    PROVE  SeenBy(m, same) \in Snapshots
<1>1. KeyOf[m] \in Keys
  BY TablesAssumption
<1>2. QED BY <1>1, CandidatesType DEF SeenBy

LEMMA FilterType ==
    ASSUME TypeOK, NEW same \in BOOLEAN
    PROVE  FilterAfter(same) \in [of : {"nothing", "bucket", "freed"},
                                  kept : [Keys -> SUBSET Snapshots]]
<1>1. \A k \in Keys : CandidatesFor(k, same) \in SUBSET Snapshots /\ filter.kept[k] \in SUBSET Snapshots
  BY CandidatesType DEF TypeOK
<1>2. QED BY <1>1 DEF FilterAfter

LEMMA RevivedType ==
    ASSUME TypeOK
    PROVE  Revived \in [Tasks -> {"none", "due", "asked", "answered"}]
<1>1. CASE Idle = {} \/ Running # {}
  BY <1>1 DEF Revived, StartOne, TypeOK
<1>2. CASE Idle # {} /\ Running = {}
  <2> DEFINE t == CHOOSE u \in Idle : TRUE
  <2>1. t \in Tasks
    BY <1>2 DEF Idle
  <2>2. Revived = [task EXCEPT ![t] = "due"]
    BY <1>2 DEF Revived, StartOne
  <2> HIDE DEF t
  <2>3. QED BY <2>1, <2>2 DEF TypeOK
<1>3. QED BY <1>1, <1>2

----------------------------------------------------------------------------
(* The match service. *)

LEMMA ApplyInvariant ==
    ASSUME IInv, NEW same \in BOOLEAN, NEW pick \in [subs -> Matches \cup {NoMatch}],
           Apply(pick, same), UNCHANGED universe
    PROVE  /\ tracked' \subseteq Matches /\ matched' \in [Markets -> Matches \cup {NoMatch}]
           /\ record' \in [Markets -> [match : Matches \cup {NoMatch}, taken : 0..MaxClock]]
           /\ subs' \subseteq listed' /\ MatchedStaysTracked' /\ NothingOfPruned'
<1> DEFINE applied == Calibrated(pick)
<1>1. /\ applied \subseteq subs /\ subs \subseteq listed /\ listed \subseteq Markets
      /\ \A m \in applied : pick[m] \in Matches
  BY TablesAssumption DEF IInv, TypeOK, Calibrated
<1>2. \A m \in Markets : SeenBy(m, same).taken \in 0..MaxClock
  BY SeenType DEF IInv, Snapshots
<1>3. /\ tracked' = tracked \cup {pick[m] : m \in applied}
      /\ matched' = [m \in Markets |-> IF m \in applied THEN pick[m] ELSE matched[m]]
      /\ record' = [m \in Markets |-> IF m \in applied
                                      THEN [match |-> pick[m], taken |-> SeenBy(m, same).taken]
                                      ELSE record[m]]
  BY DEF Apply
<1> HIDE DEF applied
<1>4. tracked' \subseteq Matches
  BY <1>1, <1>3 DEF IInv, TypeOK
<1>5. matched' \in [Markets -> Matches \cup {NoMatch}]
  BY <1>1, <1>3 DEF IInv, TypeOK
<1>6. record' \in [Markets -> [match : Matches \cup {NoMatch}, taken : 0..MaxClock]]
  BY <1>1, <1>2, <1>3 DEF IInv, TypeOK
<1>7. subs' \subseteq listed'
  BY <1>1 DEF universe
<1>8. MatchedStaysTracked'
  <2> SUFFICES ASSUME NEW m \in Markets, matched'[m] # NoMatch PROVE matched'[m] \in tracked'
    BY DEF MatchedStaysTracked
  <2>1. CASE m \in applied
    BY <2>1, <1>3
  <2>2. CASE m \notin applied
    BY <2>2, <1>3 DEF IInv, MatchedStaysTracked
  <2>3. QED BY <2>1, <2>2
<1>9. NothingOfPruned'
  <2> SUFFICES ASSUME NEW m \in Markets, m \notin listed'
               PROVE  m \notin subs' /\ matched'[m] = NoMatch /\ record'[m] = NoRecord
    BY DEF NothingOfPruned
  <2>1. m \notin listed /\ m \notin applied
    BY <1>1 DEF universe
  <2>2. QED BY <2>1, <1>3 DEF IInv, NothingOfPruned, universe
<1>10. QED BY <1>4, <1>5, <1>6, <1>7, <1>8, <1>9

LEMMA DistributeInvariant == IInv /\ Distribute(SameIdentity) => IInv'
<1> SUFFICES ASSUME IInv, Distribute(SameIdentity) PROVE IInv'
  OBVIOUS
<1>1. task' \in [Tasks -> {"none", "due", "asked", "answered"}]
  BY RevivedType DEF IInv, Distribute
<1>2. /\ provider' \in {"inplay", "livescore"} /\ clock' \in 0..MaxClock /\ live' \subseteq Matches
      /\ listed' \subseteq Markets /\ active' \subseteq Markets /\ subs' \subseteq Markets
      /\ answer' \in [Tasks -> Snapshots] /\ backoff' \in BOOLEAN /\ cache' \in Snapshots
  BY DEF IInv, TypeOK, Distribute, universe
<1>3. UNCHANGED universe
  BY DEF Distribute
<1>4. CASE ReplaceBucket
  <2>1. bucket' \in Snapshots
    BY <1>4 DEF ReplaceBucket, IInv, TypeOK
  <2>2. filter' \in [of : {"nothing", "bucket", "freed"}, kept : [Keys -> SUBSET Snapshots]]
    BY <1>4 DEF ReplaceBucket, IInv, TypeOK
  <2>3. Kept
    BY <1>3, <1>4 DEF Kept, ReplaceBucket, universe, knowledge
  <2>4. TypeOK'
    BY <1>1, <1>2, <2>1, <2>2, <2>3 DEF TypeOK, IInv, Kept
  <2>5. QED BY <2>3, <2>4, KeptInvariant
<1>5. ASSUME NEW same \in SameIdentity, MatchBucket(same) PROVE IInv'
  <2>1. same \in BOOLEAN
    BY DEF SameIdentity
  <2>2. PICK pick \in [subs -> Matches \cup {NoMatch}] : Apply(pick, same)
    BY <1>5 DEF MatchBucket
  <2>3. /\ tracked' \subseteq Matches /\ matched' \in [Markets -> Matches \cup {NoMatch}]
        /\ record' \in [Markets -> [match : Matches \cup {NoMatch}, taken : 0..MaxClock]]
        /\ subs' \subseteq listed' /\ MatchedStaysTracked' /\ NothingOfPruned'
    BY <1>3, <2>1, <2>2, ApplyInvariant
  <2>4. bucket' \in Snapshots
    BY <1>5 DEF MatchBucket, IInv, TypeOK
  <2>5. filter' \in [of : {"nothing", "bucket", "freed"}, kept : [Keys -> SUBSET Snapshots]]
    BY <1>5, <2>1, FilterType DEF MatchBucket, IInv
  <2>6. TypeOK'
    BY <1>1, <1>2, <2>3, <2>4, <2>5 DEF TypeOK
  <2>7. QED BY <2>3, <2>6 DEF IInv
<1>6. QED BY <1>4, <1>5 DEF Distribute

----------------------------------------------------------------------------
(* Markets enter and leave. *)

LEMMA AddedInvariant == ASSUME IInv, NEW m \in Markets, MarketAdded(m) PROVE IInv'
<1>1. TypeOK' /\ subs' \subseteq listed'
  BY DEF MarketAdded, IInv, TypeOK, client, knowledge
<1>2. MatchedStaysTracked' /\ NothingOfPruned'
  BY DEF MarketAdded, IInv, MatchedStaysTracked, NothingOfPruned, knowledge
<1>3. QED BY <1>1, <1>2 DEF IInv

LEMMA PrunedInvariant == ASSUME IInv, NEW m \in Markets, MarketPruned(m) PROVE IInv'
<1>1. /\ tracked' \subseteq tracked
      /\ \A other \in Markets \ {m} : matched[other] \in tracked => matched[other] \in tracked'
  BY DEF MarketPruned, StillTracked, Shared
<1>2. /\ matched' = [matched EXCEPT ![m] = NoMatch] /\ record' = [record EXCEPT ![m] = NoRecord]
      /\ listed' = listed \ {m} /\ subs' = subs \ {m}
  BY DEF MarketPruned
<1>3. NoRecord \in [match : Matches \cup {NoMatch}, taken : 0..MaxClock]
  BY BoundsAssumption DEF NoRecord
<1>4. TypeOK'
  <2>1. matched' \in [Markets -> Matches \cup {NoMatch}]
    BY <1>2 DEF IInv, TypeOK
  <2>2. record' \in [Markets -> [match : Matches \cup {NoMatch}, taken : 0..MaxClock]]
    BY <1>2, <1>3 DEF IInv, TypeOK
  <2>3. QED BY <1>1, <1>2, <2>1, <2>2 DEF MarketPruned, IInv, TypeOK, client
<1>5. subs' \subseteq listed'
  BY <1>2 DEF IInv
<1>6. MatchedStaysTracked'
  <2> SUFFICES ASSUME NEW other \in Markets, matched'[other] # NoMatch
               PROVE  matched'[other] \in tracked'
    BY DEF MatchedStaysTracked
  <2>1. other # m /\ matched'[other] = matched[other]
    BY <1>2 DEF IInv, TypeOK
  <2>2. QED BY <1>1, <2>1 DEF IInv, MatchedStaysTracked
<1>7. NothingOfPruned'
  BY <1>2 DEF IInv, TypeOK, NothingOfPruned
<1>8. QED BY <1>4, <1>5, <1>6, <1>7 DEF IInv

LEMMA ReconcileInvariant == IInv /\ Reconcile => IInv'
<1> SUFFICES ASSUME IInv, Reconcile PROVE IInv'
  OBVIOUS
<1>1. TypeOK' /\ subs' \subseteq listed'
  BY DEF Reconcile, IInv, TypeOK, client, knowledge
<1>2. MatchedStaysTracked' /\ NothingOfPruned'
  BY DEF Reconcile, IInv, MatchedStaysTracked, NothingOfPruned, knowledge
<1>3. QED BY <1>1, <1>2 DEF IInv

----------------------------------------------------------------------------
(* The provider and the client. *)

LEMMA ClientTyped ==
    ASSUME IInv, NEW t \in Tasks,
           Ask(t) \/ Served(t) \/ FetchFails(t) \/ StoreAnswer(t) \/ RoundWithout(t)
    PROVE  TypeOK' /\ Kept
<1>1. Kept
  BY DEF Ask, Served, FetchFails, StoreAnswer, RoundWithout, Kept, universe, knowledge
<1>2. /\ UNCHANGED <<provider, clock, live, universe, bucket, filter, knowledge>>
  BY DEF Ask, Served, FetchFails, StoreAnswer, RoundWithout
<1>3. task' \in [Tasks -> {"none", "due", "asked", "answered"}]
  BY DEF Ask, Served, FetchFails, StoreAnswer, RoundWithout, IInv, TypeOK
<1>4. answer' \in [Tasks -> Snapshots]
  <2> DEFINE served == [taken |-> clock, matches |-> live]
  <2>1. served \in Snapshots /\ Empty \in Snapshots /\ answer \in [Tasks -> Snapshots]
    BY SnapshotTypes DEF IInv, TypeOK
  <2>2. \/ answer' = answer \/ answer' = [answer EXCEPT ![t] = Empty]
        \/ answer' = [answer EXCEPT ![t] = served]
    BY DEF Ask, Served, FetchFails, StoreAnswer, RoundWithout
  <2> HIDE DEF served
  <2>3. QED BY <2>1, <2>2
<1>5. backoff' \in BOOLEAN
  BY DEF Ask, Served, FetchFails, StoreAnswer, RoundWithout, IInv, TypeOK
<1>6. cache' \in Snapshots
  <2>1. clock \in 0..MaxClock /\ cache \in Snapshots /\ answer[t] \in Snapshots
    BY DEF IInv, TypeOK
  <2>2. CASE Ask(t) \/ Served(t)
    BY <2>1, <2>2 DEF Ask, Served
  <2>3. CASE FetchFails(t)
    BY <2>1, <2>3, SnapshotTypes DEF FetchFails
  <2>4. CASE StoreAnswer(t)
    <3>1. Parsed(answer[t].matches) \in SUBSET Matches
      BY <2>1, ParsedType DEF Snapshots
    <3>2. [answer[t] EXCEPT !.matches = Parsed(@)] \in Snapshots
      BY <2>1, <3>1 DEF Snapshots
    <3>3. QED BY <2>1, <2>4, <3>2 DEF StoreAnswer
  <2>5. CASE RoundWithout(t)
    BY <2>1, <2>5, SnapshotTypes DEF RoundWithout
  <2>6. QED BY <2>2, <2>3, <2>4, <2>5
<1>7. TypeOK'
  BY <1>2, <1>3, <1>4, <1>5, <1>6 DEF IInv, TypeOK, universe, knowledge
<1>8. QED BY <1>1, <1>7

LEMMA OutsideTyped ==
    ASSUME IInv, FeedMoves \/ BackoffEnds \/ (\E m \in Markets : ActivityTurns(m))
    PROVE  TypeOK' /\ Kept
<1>1. CASE FeedMoves
  BY <1>1, BoundsAssumption DEF FeedMoves, IInv, TypeOK, Kept, universe, client, knowledge
<1>2. CASE BackoffEnds
  BY <1>2 DEF BackoffEnds, IInv, TypeOK, Kept, universe, knowledge
<1>3. ASSUME NEW m \in Markets, ActivityTurns(m) PROVE TypeOK' /\ Kept
  BY <1>3 DEF ActivityTurns, IInv, TypeOK, Kept, client, knowledge
<1>4. QED BY <1>1, <1>2, <1>3

----------------------------------------------------------------------------
LEMMA InitInvariant == Init => IInv
<1> SUFFICES ASSUME Init PROVE IInv
  OBVIOUS
<1>1. TypeOK
  <2>1. Empty \in Snapshots
    BY SnapshotTypes
  <2>2. answer \in [Tasks -> Snapshots] /\ cache \in Snapshots /\ bucket \in Snapshots
    BY <2>1 DEF Init
  <2>3. filter \in [of : {"nothing", "bucket", "freed"}, kept : [Keys -> SUBSET Snapshots]]
    BY DEF Init, NothingKept
  <2>4. record \in [Markets -> [match : Matches \cup {NoMatch}, taken : 0..MaxClock]]
    BY BoundsAssumption DEF Init, NoRecord
  <2>5. /\ provider \in {"inplay", "livescore"} /\ clock \in 0..MaxClock /\ live \subseteq Matches
        /\ listed \subseteq Markets /\ active \subseteq Markets /\ subs \subseteq Markets
        /\ task \in [Tasks -> {"none", "due", "asked", "answered"}]
        /\ tracked \subseteq Matches /\ matched \in [Markets -> Matches \cup {NoMatch}]
    BY BoundsAssumption DEF Init
  <2>6. backoff \in BOOLEAN
    BY Zenon DEF Init
  <2>7. QED BY <2>2, <2>3, <2>4, <2>5, <2>6 DEF TypeOK
<1>2. MatchedStaysTracked /\ NothingOfPruned
  BY DEF Init, MatchedStaysTracked, NothingOfPruned
<1>3. QED BY <1>1, <1>2 DEF Init, IInv

LEMMA StepInvariant == IInv /\ [Next]_vars => IInv'
<1> SUFFICES ASSUME IInv, [Next]_vars PROVE IInv'
  OBVIOUS
<1>1. CASE FeedMoves \/ BackoffEnds \/ \E m \in Markets : ActivityTurns(m)
  BY <1>1, OutsideTyped, KeptInvariant
<1>2. CASE Reconcile
  BY <1>2, ReconcileInvariant
<1>3. CASE Distribute(SameIdentity)
  BY <1>3, DistributeInvariant
<1>4. CASE \E m \in Markets : MarketAdded(m)
  BY <1>4, AddedInvariant
<1>5. CASE \E m \in Markets : MarketPruned(m)
  BY <1>5, PrunedInvariant
<1>6. CASE \E t \in Tasks : Ask(t) \/ Served(t) \/ FetchFails(t) \/ StoreAnswer(t) \/ RoundWithout(t)
  BY <1>6, ClientTyped, KeptInvariant
<1>7. CASE UNCHANGED vars
  <2>1. TypeOK' /\ Kept
    BY <1>7 DEF vars, IInv, TypeOK, Kept
  <2>2. QED BY <2>1, KeptInvariant
<1>8. QED BY <1>1, <1>2, <1>3, <1>4, <1>5, <1>6, <1>7 DEF Next

LEMMA Invariance == Spec => []IInv
<1>1. QED BY InitInvariant, StepInvariant, PTL DEF Spec

\* Every variable of the live source holds what the code could have put there.
THEOREM TypeCorrect == Spec => []TypeOK
<1>1. IInv => TypeOK
  BY DEF IInv
<1>2. QED BY <1>1, Invariance, PTL

\* Whatever is matched again, pruned and shared, the parser keeps the matches that markets have.
THEOREM MatchesStayTracked == Spec => []MatchedStaysTracked
<1>1. IInv => MatchedStaysTracked
  BY DEF IInv
<1>2. QED BY <1>1, Invariance, PTL

\* A market that left is forgotten everywhere at once, and stays so until it is listed again.
THEOREM PrunedIsForgotten == Spec => []NothingOfPruned
<1>1. IInv => NothingOfPruned
  BY DEF IInv
<1>2. QED BY <1>1, Invariance, PTL
=============================================================================
