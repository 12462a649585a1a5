----------------------------- MODULE UpkeepProofs -----------------------------
(***************************************************************************)
(* Theorems about five services that keep tables, positions, records and   *)
(* the registry in order.  The purge of the audit log takes nothing before *)
(* its time, for any policy that gives no title two times to live.  What   *)
(* positions are marked as is what their closed markets were seen to favour.  What   *)
(* becomes of a listed market in the registry is what the log is told.     *)
(* The line in a market's record is the provider's.  And an event that is  *)
(* acknowledged has its rows.                                              *)
(***************************************************************************)
EXTENDS AuditRetention, Settlement, MarketIngest, PregameOdds, AuditTables,
        SequenceTheorems, FiniteSetTheorems, WellFoundedInduction, TLAPS

----------------------------------------------------------------------------
(* The policy. *)

LEMMA LeastOfNaturals ==
    ASSUME NEW S \in SUBSET Nat, S # {}
    PROVE  Min(S) \in S /\ \A n \in S : Min(S) <= n
<1>1. PICK less : IsWellFoundedOn(less, Nat) /\ \A x, y \in Nat : x < y => <<x, y>> \in less
    <2> DEFINE R == OpToRel(<, Nat)
    <2>1. IsWellFoundedOn(R, Nat)
        BY NatLessThanWellFounded
    <2>2. \A x, y \in Nat : x < y => <<x, y>> \in R
        BY DEF OpToRel
    <2> HIDE DEF R
    <2> QED BY <2>1, <2>2, Zenon
<1>2. PICK x \in S : \A y \in S : ~ (<<y, x>> \in less)
    <2>1. S \subseteq Nat /\ S # {} /\ IsWellFoundedOn(less, Nat)
        BY <1>1
    <2> QED BY <2>1, WFMin, Zenon
<1>3. \A y \in S : y \in Nat /\ x \in Nat /\ ~ (y < x)
    BY <1>1, <1>2
<1>4. \A y \in S : x <= y
    BY <1>3
<1> QED BY <1>4 DEF Min

Days == {Tiers[i].days : i \in DOMAIN Tiers}

WithDays(d) == UNION {Tiers[i].titles : i \in {j \in DOMAIN Tiers : Tiers[j].days = d}}

Bucket(d) == [days |-> d, titles |-> WithDays(d)]

LEMMA BucketsAre == BucketsByDays = {Bucket(d) : d \in Days}
BY DEF BucketsByDays, Bucket, Days, WithDays

Fallback == [days |-> FallbackDays, titles |-> Titles \ Covered]

\* What a purge goes through, in whatever order.
Purged == {b \in BucketsByDays : b.days # Permanent} \cup {Fallback}

\* A bucket has the days the policy gives to each of its titles.
LEMMA BucketHasItsDays ==
    ASSUME NEW b \in Purged, NEW t \in b.titles
    PROVE  b.days \in Nat /\ RetentionDaysFor(t) = b.days
<1> DEFINE naming == {i \in DOMAIN Tiers : t \in Tiers[i].titles}
<1>1. DOMAIN Tiers \in SUBSET Nat /\ \A i \in DOMAIN Tiers : Tiers[i].days \in Nat \cup {Permanent}
    <2>1. DOMAIN Tiers = 1 .. Len(Tiers) /\ Len(Tiers) \in Nat
        BY PolicyAssumption, LenProperties
    <2>2. \A i \in 1 .. Len(Tiers) : Tiers[i] \in [titles : SUBSET Titles, days : Nat \cup {Permanent}]
        BY PolicyAssumption, ElementOfSeq
    <2> QED BY <2>1, <2>2
<1>2. RetentionDaysFor(t) = IF naming = {} THEN FallbackDays ELSE Tiers[Min(naming)].days
    BY DEF RetentionDaysFor
<1>3. CASE b \in BucketsByDays /\ b.days # Permanent
    <2>1. PICK d \in Days : b = Bucket(d)
        BY <1>3, BucketsAre
    <2>2. PICK i \in DOMAIN Tiers : Tiers[i].days = d /\ t \in Tiers[i].titles
        BY <2>1 DEF Bucket, WithDays
    <2>3. Min(naming) \in naming
        BY <1>1, <2>2, LeastOfNaturals
    <2>4. Tiers[Min(naming)].titles \cap Tiers[i].titles # {}
        BY <2>2, <2>3
    <2>5. Tiers[Min(naming)].days = d
        BY <2>2, <2>3, <2>4, PolicyAssumption
    <2>6. d \in Nat
        BY <1>1, <1>3, <2>1, <2>2 DEF Bucket
    <2> QED BY <1>2, <2>1, <2>3, <2>5, <2>6 DEF Bucket
<1>4. CASE b = Fallback
    <2>1. \A i \in DOMAIN Tiers : t \notin Tiers[i].titles
        <3> SUFFICES ASSUME NEW i \in DOMAIN Tiers, t \in Tiers[i].titles
                     PROVE  FALSE
            OBVIOUS
        <3>1. t \in WithDays(Tiers[i].days) /\ Tiers[i].days \in Days
            BY DEF WithDays, Days
        <3>2. PICK c \in BucketsByDays : c = Bucket(Tiers[i].days)
            BY <3>1, BucketsAre
        <3>3. t \in Covered
            BY <3>1, <3>2 DEF Covered, Bucket
        <3> QED BY <1>4, <3>3 DEF Fallback
    <2> QED BY <1>2, <1>4, <2>1, PolicyAssumption DEF Fallback
<1> QED BY <1>3, <1>4 DEF Purged

LEMMA FiniteBuckets == IsFiniteSet(BucketsByDays)
<1> DEFINE f == [i \in DOMAIN Tiers |-> Bucket(Tiers[i].days)]
<1>1. IsFiniteSet(DOMAIN Tiers)
    <2>1. Len(Tiers) \in Int /\ DOMAIN Tiers = 1 .. Len(Tiers)
        BY PolicyAssumption, LenProperties
    <2>2. IsFiniteSet(1 .. Len(Tiers))
        BY <2>1, FS_Interval
    <2> QED BY <2>1, <2>2
<1>2. f \in Surjection(DOMAIN Tiers, BucketsByDays)
    BY BucketsAre DEF Surjection, Days
<1> QED BY <1>1, <1>2, FS_Surjection DEF ExistsSurjection

\* A finite set put into a sequence.
LEMMA SetToSeqType ==
    ASSUME NEW S, IsFiniteSet(S)
    PROVE  SetToSeq(S) \in Seq(S)
<1>1. Cardinality(S) \in Nat /\ ExistsBijection(1 .. Cardinality(S), S)
    BY FS_CardinalityType
<1>2. PICK f \in [1 .. Cardinality(S) -> S] : IsInjective(f)
    BY <1>1 DEF ExistsBijection, Bijection, Injection
<1>3. SetToSeq(S) \in [1 .. Cardinality(S) -> S]
    BY <1>2 DEF SetToSeq
<1> QED BY <1>1, <1>3

LEMMA BucketsType == Buckets \in Seq(Purged)
<1> DEFINE tiers == {b \in BucketsByDays : b.days # Permanent}
<1>1. IsFiniteSet(tiers)
    BY FiniteBuckets, FS_Subset
<1>2. SetToSeq(tiers) \in Seq(tiers)
    BY <1>1, SetToSeqType
<1>3. SetToSeq(tiers) \in Seq(Purged)
    BY <1>2, SeqMonotonic DEF Purged
<1> QED BY <1>3 DEF Buckets, Purged, Fallback

----------------------------------------------------------------------------
(* The purge. *)

\* The buckets that are left are those of the policy.
PurgeTyped ==
    purge \in [left : Seq(Purged), started : 0 .. today, batches : 0 .. MaxBatches - 1]

Inv == TypeOK /\ PurgeTyped

Takes == \A r \in rows \ rows' : Overdue(r)

LEMMA NextBucketType ==
    ASSUME Inv, purge.left # <<>>
    PROVE  NextBucket \in [left : Seq(Purged), started : 0 .. today, batches : 0 .. MaxBatches - 1]
           /\ Head(purge.left) \in Purged
<1>1. purge.left \in Seq(Purged) /\ purge.started \in 0 .. today
    BY DEF Inv, PurgeTyped
<1>2. Tail(purge.left) \in Seq(Purged) /\ Head(purge.left) \in Purged
    BY <1>1, HeadTailProperties
<1>3. 0 \in 0 .. MaxBatches - 1
    BY BoundsAssumption
<1> QED BY <1>1, <1>2, <1>3 DEF NextBucket, Inv, PurgeTyped

\* What a bucket takes has had the time the policy gives it, on the day the purge began and
\* more so today.
LEMMA ExpiredIsOverdue ==
    ASSUME Inv, NEW b \in Purged, NEW r \in ExpiredIn(b)
    PROVE  Overdue(r)
<1>1. /\ r[1] \in b.titles /\ r[2] < purge.started - b.days /\ r[2] \in Nat
      /\ purge.started \in Nat /\ today \in Nat /\ purge.started <= today
    BY BoundsAssumption DEF ExpiredIn, Cutoff, Inv, TypeOK
<1>2. b.days \in Nat /\ RetentionDaysFor(r[1]) = b.days
    BY <1>1, BucketHasItsDays
<1> QED BY <1>1, <1>2, PolicyAssumption DEF Overdue

LEMMA StepInv ==
    ASSUME Inv, [Next]_vars
    PROVE  Inv' /\ Takes
<1>1. /\ TypeOK /\ PurgeTyped /\ today \in 0 .. LastDay /\ rows \subseteq Titles \X (0 .. LastDay)
      /\ purge \in [left : Seq(Purged), started : 0 .. today, batches : 0 .. MaxBatches - 1]
    BY DEF Inv, PurgeTyped, TypeOK
<1>2. ASSUME UNCHANGED today, rows' \subseteq Titles \X (0 .. LastDay),
             purge' \in [left : Seq(Purged), started : 0 .. today, batches : 0 .. MaxBatches - 1]
      PROVE  Inv'
    BY <1>1, <1>2 DEF Inv, PurgeTyped, TypeOK
<1>3. CASE \E t \in Titles : Write(t)
    <2>1. PICK t \in Titles : rows' = rows \cup {<<t, today>>} /\ UNCHANGED <<today, purge>>
        BY <1>3 DEF Write
    <2> QED BY <1>1, <1>2, <2>1 DEF Takes
<1>4. CASE DayPasses
    <2>1. today' = today + 1 /\ today < LastDay /\ UNCHANGED <<rows, purge>>
        BY <1>4 DEF DayPasses
    <2>2. today' \in 0 .. LastDay /\ 0 .. today \subseteq 0 .. today'
        BY <1>1, <2>1, BoundsAssumption
    <2> QED BY <1>1, <2>1, <2>2 DEF Inv, PurgeTyped, TypeOK, Takes
<1>5. CASE Start
    <2>1. purge' = [left |-> Buckets, started |-> today, batches |-> 0] /\ UNCHANGED <<today, rows>>
        BY <1>5 DEF Start
    <2>2. purge' \in [left : Seq(Purged), started : 0 .. today, batches : 0 .. MaxBatches - 1]
        BY <1>1, <2>1, BucketsType, BoundsAssumption
    <2> QED BY <1>1, <1>2, <2>1, <2>2 DEF Takes
<1>6. CASE \E locked \in SUBSET rows : Batch(locked)
    <2>1. PICK locked \in SUBSET rows : Batch(locked)
        BY <1>6
    <2>2. purge.left # <<>> /\ UNCHANGED today
        BY <2>1 DEF Batch
    <2>3. PICK taken \in SUBSET (ExpiredIn(Head(purge.left)) \ locked) :
             /\ rows' = rows \ taken
             /\ purge' = IF Cardinality(taken) < BatchSize \/ purge.batches + 1 = MaxBatches
                         THEN NextBucket ELSE [purge EXCEPT !.batches = @ + 1]
        BY <2>1 DEF Batch
    <2>4. purge' \in [left : Seq(Purged), started : 0 .. today, batches : 0 .. MaxBatches - 1]
        <3>1. CASE Cardinality(taken) < BatchSize \/ purge.batches + 1 = MaxBatches
            BY <2>2, <2>3, <3>1, NextBucketType
        <3>2. CASE ~(Cardinality(taken) < BatchSize \/ purge.batches + 1 = MaxBatches)
            <4>1. purge.batches + 1 \in 0 .. MaxBatches - 1
                BY <1>1, <3>2, BoundsAssumption
            <4>2. purge' = [purge EXCEPT !.batches = purge.batches + 1]
                BY <2>3, <3>2
            <4> QED BY <1>1, <4>1, <4>2
        <3> QED BY <3>1, <3>2
    <2>5. Takes
        <3>1. \A r \in taken : Overdue(r)
            BY <2>2, <2>3, NextBucketType, ExpiredIsOverdue
        <3> QED BY <2>3, <3>1 DEF Takes
    <2> QED BY <1>1, <1>2, <2>2, <2>3, <2>4, <2>5
<1>7. CASE BatchFails
    <2>1. purge.left # <<>> /\ purge' = NextBucket /\ UNCHANGED <<today, rows>>
        BY <1>7 DEF BatchFails
    <2>2. purge' \in [left : Seq(Purged), started : 0 .. today, batches : 0 .. MaxBatches - 1]
        BY <2>1, NextBucketType
    <2> QED BY <1>1, <1>2, <2>1, <2>2 DEF Takes
<1>8. CASE UNCHANGED vars
    BY <1>1, <1>2, <1>8 DEF vars, Takes
<1> QED BY <1>3, <1>4, <1>5, <1>6, <1>7, <1>8 DEF Next

LEMMA InitInv == Init => Inv
<1> SUFFICES ASSUME Init PROVE Inv
    OBVIOUS
<1>1. <<>> \in Seq(Purged)
    OBVIOUS
<1>2. today = 0 /\ rows = {} /\ purge = [left |-> <<>>, started |-> 0, batches |-> 0]
    BY DEF Init
<1> QED BY <1>1, <1>2, BoundsAssumption DEF Inv, PurgeTyped, TypeOK

\* The inductive invariant: types, and the tier that is being purged is one of the
\* policy's.  (purge_audit_events_once)
THEOREM Invariance == Spec => []Inv
<1>1. Inv /\ [Next]_vars => Inv'
    BY StepInv
<1> QED BY <1>1, InitInv, PTL DEF Spec

\* Every variable keeps its type.
THEOREM TypeCorrect == Spec => []TypeOK
<1>1. Inv => TypeOK
    BY DEF Inv
<1> QED BY <1>1, Invariance, PTL

\* The purge takes no row before its time, of whatever title, however the tiers share their
\* days and whatever is written meanwhile.  (purge_audit_events_once, retention_days_for)
THEOREM NothingPurgedEarly == Spec => KeptForItsTime
<1>1. Inv /\ [Next]_vars => [Takes]_vars
    BY StepInv
<1> QED BY <1>1, Invariance, PTL DEF Spec, KeptForItsTime, Takes

----------------------------------------------------------------------------
(* Settlement: what positions are marked as. *)

\* What a scan is about to publish is what its market was seen to favour, if it has a winner.
ScanIsTrue ==
    scan.at = "publish" /\ Head(scan.left) \in HeldMarkets =>
        /\ scan.winner \in Favours \cup {None}
        /\ scan.winner \in Decided => scan.winner \in shown[Head(scan.left)]

PositionsAreTrue == \A m \in HeldMarkets : Says(account[m], m)
PollIsTrue == poll # None => \A m \in HeldMarkets : Says(poll[m], m)
LogIsTrue == \A m \in HeldMarkets : log[m] \in Decided => log[m] \in shown[m]

\* What Gamma favours of a closed market it has favoured.
ShownIsTrue ==
    \A m \in HeldMarkets : Resolved(venue[m]) \in Decided => Resolved(venue[m]) \in shown[m]

MarksTyped ==
    /\ venue \in [HeldMarkets -> States]
    /\ shown \in [HeldMarkets -> SUBSET Decided]
    /\ account \in [HeldMarkets -> Marks \cup {None}]
    /\ poll \in [HeldMarkets -> Marks \cup {None}] \cup {None}
    /\ log \in [HeldMarkets -> Favours \cup {None}]
    /\ scan = [at |-> scan.at, left |-> scan.left, winner |-> scan.winner]

SettleInv ==
    MarksTyped /\ PositionsAreTrue /\ PollIsTrue /\ LogIsTrue /\ ScanIsTrue /\ ShownIsTrue

LEMMA ResolvedTyped ==
    ASSUME NEW s \in States
    PROVE  Resolved(s) \in Favours \cup {None} /\ (Resolved(s) # None => Resolved(s) = s.favours)
BY DEF Resolved, States

\* What Gamma once favoured of a closed market stays told, and what it favours now is told.
LEMMA ShownGrows ==
    ASSUME NEW m \in HeldMarkets, NEW s \in States, VenueMoves(m, s), MarksTyped, ShownIsTrue
    PROVE  /\ venue' \in [HeldMarkets -> States] /\ shown' \in [HeldMarkets -> SUBSET Decided]
           /\ \A k \in HeldMarkets : shown[k] \subseteq shown'[k]
           /\ ShownIsTrue'
<1>1. /\ venue' = [venue EXCEPT ![m] = s]
      /\ shown' = [shown EXCEPT ![m] = IF IsOpen(s) THEN shown[m]
                                       ELSE shown[m] \cup ({s.favours} \cap Decided)]
      /\ venue \in [HeldMarkets -> States] /\ shown \in [HeldMarkets -> SUBSET Decided]
    BY DEF VenueMoves, MarksTyped
<1>2. Resolved(s) \in Decided => ~IsOpen(s) /\ Resolved(s) = s.favours
    BY NoneAssumption DEF Resolved, Decided
<1>3. venue' \in [HeldMarkets -> States] /\ shown' \in [HeldMarkets -> SUBSET Decided]
    BY <1>1
<1>4. \A k \in HeldMarkets : shown[k] \subseteq shown'[k]
    BY <1>1
<1>5. ASSUME NEW k \in HeldMarkets, Resolved(venue'[k]) \in Decided
      PROVE  Resolved(venue'[k]) \in shown'[k]
    <2>1. CASE k = m
        <3>1. venue'[k] = s
            BY <1>1, <2>1
        <3>2. ~IsOpen(s) /\ Resolved(s) = s.favours /\ Resolved(s) \in Decided
            BY <1>2, <1>5, <3>1
        <3>3. shown'[k] = shown[m] \cup ({s.favours} \cap Decided)
            BY <1>1, <2>1, <3>2
        <3> QED BY <3>1, <3>2, <3>3
    <2>2. CASE k # m
        <3>1. venue'[k] = venue[k] /\ shown'[k] = shown[k]
            BY <1>1, <2>2
        <3> QED BY <1>5, <3>1 DEF ShownIsTrue
    <2> QED BY <2>1, <2>2
<1>6. ShownIsTrue'
    BY <1>5 DEF ShownIsTrue
<1> QED BY <1>3, <1>4, <1>6

\* A position is marked as its market was seen to be decided.
LEMMA MarkedIsTrue ==
    ASSUME NEW m \in HeldMarkets, NEW position \in Marks \cup {None}, NEW winner \in Favours \cup {None},
           Says(position, m), winner \in Decided => winner \in shown[m]
    PROVE  Marked(position, winner) \in Marks \cup {None} /\ Says(Marked(position, winner), m)
BY DEF Marked, MarkOf, Says, Decided, Marks

LEMMA SettleInitInv == SettleInit => SettleInv
<1> SUFFICES ASSUME SettleInit PROVE SettleInv
    OBVIOUS
<1>1. scan = [at |-> "idle", left |-> <<>>, winner |-> None]
    BY DEF SettleInit, NoScan
<1>2. \A m \in HeldMarkets : venue[m] \in States /\ IsOpen(venue[m])
    BY DEF SettleInit, States, Favours, IsOpen
<1>3. venue \in [HeldMarkets -> States] /\ shown \in [HeldMarkets -> SUBSET Decided]
    BY <1>2 DEF SettleInit
<1>4. ShownIsTrue
    BY <1>2, NoneAssumption DEF ShownIsTrue, Resolved, Decided
<1>5. /\ account \in [HeldMarkets -> Marks \cup {None}] /\ PositionsAreTrue
      /\ log \in [HeldMarkets -> Favours \cup {None}] /\ LogIsTrue /\ poll = None
    BY NoneAssumption DEF SettleInit, PositionsAreTrue, LogIsTrue, Says, Marks, Favours, Decided
<1> QED BY <1>1, <1>3, <1>4, <1>5 DEF SettleInv, MarksTyped, PollIsTrue, ScanIsTrue

\* Neither the venue nor what was seen of it changes.
LEMMA VenueStays ==
    ASSUME SettleInv, UNCHANGED <<venue, shown>>,
           account' \in [HeldMarkets -> Marks \cup {None}], PositionsAreTrue',
           poll' \in [HeldMarkets -> Marks \cup {None}] \cup {None}, PollIsTrue',
           log' \in [HeldMarkets -> Favours \cup {None}], LogIsTrue',
           ScanIsTrue',
           scan' = [at |-> scan'.at, left |-> scan'.left, winner |-> scan'.winner]
    PROVE  SettleInv'
<1>1. ShownIsTrue'
    BY DEF SettleInv, ShownIsTrue
<1> QED BY <1>1 DEF SettleInv, MarksTyped

\* A step of the scan that publishes nothing.
LEMMA ScanOnly ==
    ASSUME SettleInv, UNCHANGED <<venue, shown, account, poll, log>>,
           ScanIsTrue',
           scan' = [at |-> scan'.at, left |-> scan'.left, winner |-> scan'.winner]
    PROVE  SettleInv'
<1>1. PositionsAreTrue' /\ PollIsTrue' /\ LogIsTrue'
    BY DEF SettleInv, PositionsAreTrue, PollIsTrue, LogIsTrue, Says
<1> QED BY <1>1, VenueStays DEF SettleInv, MarksTyped

LEMMA SettleStep ==
    ASSUME SettleInv, [SettleNext]_settle_vars
    PROVE  SettleInv'
<1>0. /\ venue \in [HeldMarkets -> States] /\ account \in [HeldMarkets -> Marks \cup {None}]
      /\ shown \in [HeldMarkets -> SUBSET Decided]
      /\ poll \in [HeldMarkets -> Marks \cup {None}] \cup {None}
      /\ log \in [HeldMarkets -> Favours \cup {None}]
      /\ scan = [at |-> scan.at, left |-> scan.left, winner |-> scan.winner]
      /\ PositionsAreTrue /\ PollIsTrue /\ LogIsTrue /\ ScanIsTrue /\ ShownIsTrue
    BY DEF SettleInv, MarksTyped
<1>1. ASSUME UNCHANGED <<venue, shown, account, poll, scan, log>> PROVE SettleInv'
    BY <1>0, <1>1 DEF SettleInv, MarksTyped, PositionsAreTrue, PollIsTrue, LogIsTrue, ScanIsTrue,
                      ShownIsTrue, Says
<1>2. ASSUME NEW m \in HeldMarkets, NEW s \in States, VenueMoves(m, s) PROVE SettleInv'
    <2>1. UNCHANGED <<account, poll, scan, log>>
        BY <1>2 DEF VenueMoves
    <2>2. /\ venue' \in [HeldMarkets -> States] /\ shown' \in [HeldMarkets -> SUBSET Decided]
          /\ \A k \in HeldMarkets : shown[k] \subseteq shown'[k]
          /\ ShownIsTrue'
        BY <1>2, ShownGrows DEF SettleInv
    <2>3. PositionsAreTrue' /\ PollIsTrue' /\ LogIsTrue'
        BY <1>0, <2>1, <2>2 DEF PositionsAreTrue, PollIsTrue, LogIsTrue, Says
    <2>4. ScanIsTrue'
        BY <1>0, <2>1, <2>2 DEF ScanIsTrue
    <2> QED BY <1>0, <2>1, <2>2, <2>3, <2>4 DEF SettleInv, MarksTyped
<1>3. ASSUME NEW m \in HeldMarkets, BecomesRedeemable(m) \/ Redeem(m) PROVE SettleInv'
    BY <1>1, <1>3 DEF BecomesRedeemable, Redeem, gamma_vars
<1>4. ASSUME NEW heard \in SUBSET HeldMarkets, PollAnswered(heard) PROVE SettleInv'
    <2> DEFINE answer(m) == IF m \notin owned THEN None
                            ELSE IF m \in heard /\ Resolved(venue[m]) # None
                            THEN Marked("unmarked", Resolved(venue[m])) ELSE "unmarked"
    <2>1. poll' = [m \in HeldMarkets |-> answer(m)] /\ UNCHANGED <<venue, shown, account, scan, log>>
        BY <1>4 DEF PollAnswered, gamma_vars
    <2>2. \A m \in HeldMarkets : answer(m) \in Marks \cup {None} /\ Says(answer(m), m)
        <3> SUFFICES ASSUME NEW m \in HeldMarkets
                     PROVE  answer(m) \in Marks \cup {None} /\ Says(answer(m), m)
            OBVIOUS
        <3>1. venue[m] \in States
            BY <1>0
        <3>2. "unmarked" \in Marks /\ Says("unmarked", m) /\ Says(None, m)
            BY NoneAssumption DEF Marks, Says
        <3>3. Marked("unmarked", Resolved(venue[m])) \in Marks \cup {None}
              /\ Says(Marked("unmarked", Resolved(venue[m])), m)
            <4>1. Resolved(venue[m]) \in Favours \cup {None}
                BY <3>1, ResolvedTyped
            <4>2. Resolved(venue[m]) \in Decided => Resolved(venue[m]) \in shown[m]
                BY <1>0 DEF ShownIsTrue
            <4> QED BY <3>2, <4>1, <4>2, MarkedIsTrue
        <3> QED BY <3>2, <3>3
    <2> HIDE DEF answer
    <2>3. poll' \in [HeldMarkets -> Marks \cup {None}] /\ PollIsTrue'
        BY <2>1, <2>2 DEF PollIsTrue, Says
    <2>4. PositionsAreTrue' /\ LogIsTrue' /\ ScanIsTrue'
        BY <1>0, <2>1 DEF PositionsAreTrue, LogIsTrue, ScanIsTrue, Says
    <2> QED BY <1>0, <2>1, <2>3, <2>4, VenueStays
<1>5. CASE PollWrites
    <2>1. poll # None /\ account' = poll /\ poll' = None /\ UNCHANGED <<venue, shown, scan, log>>
        BY <1>5 DEF PollWrites, gamma_vars
    <2>2. PositionsAreTrue' /\ PollIsTrue' /\ LogIsTrue' /\ ScanIsTrue'
        BY <1>0, <2>1 DEF PositionsAreTrue, PollIsTrue, LogIsTrue, ScanIsTrue, Says
    <2> QED BY <1>0, <2>1, <2>2, VenueStays
<1>6. CASE ScanStarts
    <2>1. PICK left : scan' = [NoScan EXCEPT !.at = "next", !.left = left]
        BY <1>6 DEF ScanStarts, gamma_vars
    <2>2. scan' = [at |-> "next", left |-> left, winner |-> None]
        BY <2>1 DEF NoScan
    <2>3. UNCHANGED <<venue, shown, account, poll, log>>
        BY <1>6 DEF ScanStarts, gamma_vars
    <2> QED BY <2>2, <2>3, ScanOnly DEF ScanIsTrue
<1>7. CASE SkipPublished \/ NotSettled
    <2>1. scan.at = "next" /\ UNCHANGED <<venue, shown, account, poll, log>>
        BY <1>7 DEF SkipPublished, NotSettled, gamma_vars
    <2>2. scan' = [at |-> "next", left |-> Tail(scan.left), winner |-> scan.winner]
        <3>1. scan' = [scan EXCEPT !.left = Tail(scan.left)] \/ scan' = [scan EXCEPT !.at = "next", !.left = Tail(scan.left)]
            BY <1>7 DEF SkipPublished, NotSettled, GoOn
        <3> QED BY <1>0, <2>1, <3>1
    <2> QED BY <1>0, <2>1, <2>2, ScanOnly DEF ScanIsTrue
<1>8. CASE Looked
    <2> DEFINE m == Head(scan.left)
    <2>1. /\ scan' = [at |-> "publish", left |-> scan.left, winner |-> Resolved(venue[m])]
          /\ UNCHANGED <<venue, shown, account, poll, log>>
        BY <1>0, <1>8 DEF Looked, gamma_vars
    <2>2. m \in HeldMarkets =>
             /\ Resolved(venue[m]) \in Favours \cup {None}
             /\ Resolved(venue[m]) \in Decided => Resolved(venue[m]) \in shown[m]
        BY <1>0, ResolvedTyped DEF ShownIsTrue
    <2>3. ScanIsTrue'
        BY <2>1, <2>2 DEF ScanIsTrue
    <2> QED BY <2>1, <2>3, ScanOnly
<1>9. ASSUME NEW reported \in BOOLEAN, Settle(reported) PROVE SettleInv'
    <2> DEFINE m == Head(scan.left)
    <2>1. /\ scan.at = "publish"
          /\ log' = [log EXCEPT ![m] = IF reported /\ log[m] = None THEN scan.winner ELSE log[m]]
          /\ account' = [account EXCEPT ![m] = Marked(account[m], scan.winner)]
          /\ UNCHANGED <<venue, shown, poll>>
        BY <1>9 DEF Settle, gamma_vars
    <2>2. scan' = [at |-> "next", left |-> Tail(scan.left), winner |-> None]
        BY <1>0, <1>9 DEF Settle, GoOn, gamma_vars
    <2>3. m \in HeldMarkets =>
             /\ scan.winner \in Favours \cup {None}
             /\ scan.winner \in Decided => scan.winner \in shown[m]
             /\ Marked(account[m], scan.winner) \in Marks \cup {None}
             /\ Says(Marked(account[m], scan.winner), m)
        <3> SUFFICES ASSUME m \in HeldMarkets
                     PROVE  /\ scan.winner \in Favours \cup {None}
                            /\ scan.winner \in Decided => scan.winner \in shown[m]
                            /\ Marked(account[m], scan.winner) \in Marks \cup {None}
                            /\ Says(Marked(account[m], scan.winner), m)
            OBVIOUS
        <3>1. /\ scan.winner \in Favours \cup {None}
              /\ scan.winner \in Decided => scan.winner \in shown[m]
            BY <1>0, <2>1 DEF ScanIsTrue
        <3>2. account[m] \in Marks \cup {None} /\ Says(account[m], m)
            BY <1>0 DEF PositionsAreTrue
        <3> QED BY <3>1, <3>2, MarkedIsTrue
    <2> HIDE DEF m
    <2>4. account' \in [HeldMarkets -> Marks \cup {None}] /\ PositionsAreTrue'
        BY <1>0, <2>1, <2>3 DEF PositionsAreTrue, Says
    <2>5. log' \in [HeldMarkets -> Favours \cup {None}] /\ LogIsTrue'
        BY <1>0, <2>1, <2>3 DEF LogIsTrue
    <2>6. PollIsTrue' /\ ScanIsTrue'
        BY <1>0, <2>1, <2>2 DEF PollIsTrue, ScanIsTrue, Says
    <2> QED BY <1>0, <2>1, <2>2, <2>4, <2>5, <2>6, VenueStays
<1>10. CASE ScanEnds
    <2>1. scan' = [at |-> "idle", left |-> <<>>, winner |-> None] /\ UNCHANGED <<venue, shown, account, poll, log>>
        BY <1>10 DEF ScanEnds, NoScan, gamma_vars
    <2> QED BY <2>1, ScanOnly DEF ScanIsTrue
<1>11. CASE Restart
    <2>1. /\ scan' = [at |-> "idle", left |-> <<>>, winner |-> None] /\ poll' = None
          /\ account' = [m \in HeldMarkets |-> IF m \in owned THEN "unmarked" ELSE None]
          /\ UNCHANGED <<venue, shown, log>>
        BY <1>11 DEF Restart, NoScan, gamma_vars
    <2>2. account' \in [HeldMarkets -> Marks \cup {None}] /\ PositionsAreTrue'
        BY <2>1, NoneAssumption DEF PositionsAreTrue, Says, Marks
    <2>3. PollIsTrue' /\ LogIsTrue' /\ ScanIsTrue'
        BY <1>0, <2>1 DEF PollIsTrue, LogIsTrue, ScanIsTrue
    <2> QED BY <1>0, <2>1, <2>2, <2>3, VenueStays
<1>12. CASE UNCHANGED settle_vars
    BY <1>1, <1>12 DEF settle_vars, gamma_vars
<1> QED BY <1>2, <1>3, <1>4, <1>5, <1>6, <1>7, <1>8, <1>9, <1>10, <1>11, <1>12 DEF SettleNext

\* The inductive invariant: marks in the account, in a poll and in the log are what the closed
\* market was seen to favour, and so is what a scan has looked up and not yet published.
\* (run_once)
THEOREM SettleInvariance == SettleSpec => []SettleInv
<1>1. SettleInv /\ [SettleNext]_settle_vars => SettleInv'
    BY SettleStep
<1> QED BY <1>1, SettleInitInv, PTL DEF SettleSpec

\* What a position is marked as, in the account, in a poll on its way and in the log, is an
\* outcome Gamma favoured once its market was closed, and nothing prices of an open market say,
\* for any markets held, however polls, scans, prices and restarts follow each other.
\* (_resolve_from_gamma_payload, _enrich_account_positions, _enrich_redeemable_positions)
THEOREM MarksFollowTheVenue == SettleSpec => []MarksAreTrue
<1>1. SettleInv => MarksAreTrue
    BY DEF SettleInv, PositionsAreTrue, PollIsTrue, LogIsTrue, MarksAreTrue
<1> QED BY <1>1, SettleInvariance, PTL

----------------------------------------------------------------------------
(* Market ingest: the registry and the log. *)

\* A market that was never seen was never told as discovered.
UnseenIsUntold == \A m \in Markets \ seen : told[m].discovered = 0

Tellings == [discovered : 0 .. 2, latest : Kinds \cup {"nothing"}]

IngestInv == IngestTypeOK /\ ActiveWasTold /\ DiscoveredOnce /\ UnseenIsUntold

LEMMA IngestInitInv == IngestInit => IngestInv
BY NoReasonAssumption DEF IngestInit, IngestInv, IngestTypeOK, ActiveWasTold, DiscoveredOnce, UnseenIsUntold, Kinds

\* What a listing leaves of the registry's copy, in the words of the code's branches.
LEMMA CopyIs ==
    ASSUME NEW m \in Markets, NEW why \in Why \cup {NoReason}
    PROVE  /\ why = NoReason => CopyAfter(m, why) = "active"
           /\ Retained(m, why) => CopyAfter(m, why) = "paused"
           /\ Dropped(m, why) => CopyAfter(m, why) = "absent"
           /\ why # NoReason /\ ~Retained(m, why) /\ ~Dropped(m, why) => CopyAfter(m, why) = copy[m]
BY NoReasonAssumption DEF CopyAfter, Retained, Dropped

\* What is active after a listing was selected, or is what it was; then it is told as
\* discovered or updated, or nothing is told.
LEMMA ActiveIsTold ==
    ASSUME NEW m \in Markets, NEW why \in Why \cup {NoReason}, NEW lately \in BOOLEAN,
           NEW same \in BOOLEAN, CopyAfter(m, why) = "active"
    PROVE  \/ Published(m, why, lately, same) /\ KindOf(m, why) \in {"discovered", "updated"}
           \/ ~Published(m, why, lately, same) /\ copy[m] = "active"
<1>1. ~Retained(m, why) /\ ~Dropped(m, why)
    BY CopyIs
<1>2. CASE why = NoReason
    <2>1. KindOf(m, why) \in {"discovered", "updated"} /\ ~Silent(m, why, lately)
        BY <1>2 DEF KindOf, Silent
    <2>2. Published(m, why, lately, same) \/ Unchanged(m, why, same)
        BY <1>2, <2>1 DEF Published
    <2>3. Unchanged(m, why, same) => copy[m] = "active"
        BY DEF Unchanged
    <2> QED BY <2>1, <2>2, <2>3
<1>3. CASE why # NoReason
    <2>1. copy[m] = "active"
        BY <1>1, <1>3, CopyIs
    <2>2. why = Unparsed
        BY <1>1, <1>3, <2>1 DEF Dropped, Known, Tracked
    <2>3. ~Published(m, why, lately, same)
        BY <1>1, <1>3, <2>2 DEF Published
    <2> QED BY <2>1, <2>3
<1> QED BY <1>2, <1>3

LEMMA IngestStep ==
    ASSUME IngestInv, [IngestNext]_ingest_vars
    PROVE  IngestInv'
<1>0. /\ copy \in [Markets -> {"absent", "active", "paused"}]
      /\ exposed \in SUBSET Markets /\ seen \in SUBSET Markets
      /\ lent \in SUBSET Markets /\ quiet \in SUBSET Markets
      /\ reason \in [Markets -> Why \cup {NoReason}]
      /\ told \in [Markets -> Tellings]
      /\ ActiveWasTold /\ DiscoveredOnce /\ UnseenIsUntold
    BY DEF IngestInv, IngestTypeOK, Tellings
<1>1. ASSUME NEW m \in Markets, NEW why \in Why \cup {NoReason}, NEW lately \in BOOLEAN,
             NEW same \in BOOLEAN, Ingest(m, why, lately, same)
      PROVE  IngestInv'
    <2> DEFINE more == IF KindOf(m, why) = "discovered" THEN 1 ELSE 0
               telling == [discovered |-> told[m].discovered + more, latest |-> KindOf(m, why)]
    <2>1. /\ copy' = [copy EXCEPT ![m] = CopyAfter(m, why)]
          /\ seen' = seen \cup {m}
          /\ reason' = [reason EXCEPT ![m] = ReasonAfter(m, why, lately)]
          /\ told' = IF ~Published(m, why, lately, same) THEN told ELSE [told EXCEPT ![m] = telling]
          /\ quiet' = IF Published(m, why, lately, same) \/ CopyAfter(m, why) # copy[m]
                      THEN quiet \ {m} ELSE quiet
          /\ UNCHANGED <<exposed, lent>>
        BY <1>1 DEF Ingest
    <2>2. KindOf(m, why) \in Kinds /\ (KindOf(m, why) = "discovered" => m \notin seen)
        BY DEF KindOf, Kinds
    <2>3. told[m] \in Tellings /\ told[m].discovered \in 0 .. 1 /\ (m \notin seen => told[m].discovered = 0)
        BY <1>0 DEF DiscoveredOnce, UnseenIsUntold, Tellings
    <2>4. telling \in Tellings /\ telling.discovered <= 1 /\ telling.latest = KindOf(m, why)
        BY <2>2, <2>3 DEF Tellings
    <2> HIDE DEF telling
    <2>5. told' \in [Markets -> Tellings] /\ DiscoveredOnce'
        BY <1>0, <2>1, <2>4 DEF DiscoveredOnce
    <2>6. UnseenIsUntold'
        BY <1>0, <2>1 DEF UnseenIsUntold
    <2>7. ActiveWasTold'
        <3> SUFFICES ASSUME NEW k \in Markets, k \notin quiet', copy'[k] = "active"
                     PROVE  told'[k].latest \in {"discovered", "updated"}
            BY DEF ActiveWasTold
        <3>1. CASE k # m
            <4>1. copy'[k] = copy[k] /\ told'[k] = told[k] /\ k \notin quiet
                BY <1>0, <2>1, <3>1
            <4> QED BY <1>0, <4>1 DEF ActiveWasTold
        <3>2. CASE k = m
            <4>1. CopyAfter(m, why) = "active"
                BY <1>0, <2>1, <3>2
            <4>2. CASE Published(m, why, lately, same) /\ KindOf(m, why) \in {"discovered", "updated"}
                <5>1. told'[m] = telling
                    BY <1>0, <2>1, <4>2
                <5> QED BY <2>4, <3>2, <4>2, <5>1
            <4>3. CASE ~Published(m, why, lately, same) /\ copy[m] = "active"
                <5>1. told' = told /\ quiet' = quiet
                    BY <2>1, <4>1, <4>3
                <5> QED BY <1>0, <3>2, <4>3, <5>1 DEF ActiveWasTold
            <4> QED BY <4>1, <4>2, <4>3, ActiveIsTold
        <3> QED BY <3>1, <3>2
    <2>8. copy' \in [Markets -> {"absent", "active", "paused"}]
        <3>1. copy[m] \in {"absent", "active", "paused"}
            BY <1>0
        <3>2. CopyAfter(m, why) \in {"absent", "active", "paused"}
            BY <3>1, CopyIs DEF Dropped
        <3> QED BY <1>0, <2>1, <3>2
    <2>9. reason' \in [Markets -> Why \cup {NoReason}]
        BY <1>0, <2>1 DEF ReasonAfter
    <2> QED BY <1>0, <2>1, <2>5, <2>6, <2>7, <2>8, <2>9 DEF IngestInv, IngestTypeOK, Tellings
<1>2. ASSUME NEW m \in Markets, Enter(m) \/ Leave(m) PROVE IngestInv'
    BY <1>0, <1>2 DEF Enter, Leave, IngestInv, IngestTypeOK, Tellings, ActiveWasTold, DiscoveredOnce, UnseenIsUntold
<1>3. ASSUME NEW m \in Markets, Prune(m) PROVE IngestInv'
    BY <1>0, <1>3 DEF Prune, IngestInv, IngestTypeOK, Tellings, ActiveWasTold, DiscoveredOnce, UnseenIsUntold
<1>5. ASSUME NEW m \in Markets, TakeUp(m) PROVE IngestInv'
    BY <1>0, <1>5 DEF TakeUp, IngestInv, IngestTypeOK, Tellings, ActiveWasTold, DiscoveredOnce, UnseenIsUntold
<1>6. ASSUME NEW m \in Markets, FeesChange(m) PROVE IngestInv'
    <2>1. told[m] \in Tellings /\ told' = [told EXCEPT ![m] = [told[m] EXCEPT !.latest = "updated"]]
        BY <1>0, <1>6 DEF FeesChange
    <2>2. PICK t \in Tellings : t = [told[m] EXCEPT !.latest = "updated"]
        BY <2>1 DEF Tellings, Kinds
    <2>3. t.discovered = told[m].discovered /\ t.latest = "updated" /\ told' = [told EXCEPT ![m] = t]
        BY <2>1, <2>2 DEF Tellings
    <2>4. told' \in [Markets -> Tellings]
        BY <1>0, <2>3
    <2>5. \A k \in Markets : told'[k].discovered = told[k].discovered
                             /\ (told'[k].latest = told[k].latest \/ told'[k].latest = "updated")
        BY <1>0, <2>3
    <2>6. UNCHANGED <<copy, exposed, seen, reason, lent, quiet>>
        BY <1>6 DEF FeesChange
    <2>7. ActiveWasTold' /\ DiscoveredOnce' /\ UnseenIsUntold'
        BY <1>0, <2>5, <2>6 DEF ActiveWasTold, DiscoveredOnce, UnseenIsUntold
    <2> QED BY <1>0, <2>4, <2>6, <2>7 DEF IngestInv, IngestTypeOK, Tellings
<1>7. ASSUME NEW m \in Markets, NEW status \in {"active", "paused"}, WriteBack(m, status) PROVE IngestInv'
    <2>1. /\ copy' = [copy EXCEPT ![m] = status] /\ lent' = lent \ {m}
          /\ quiet' = IF status = copy[m] THEN quiet ELSE quiet \cup {m}
          /\ UNCHANGED <<exposed, seen, reason, told>>
        BY <1>7 DEF WriteBack
    <2>2. copy' \in [Markets -> {"absent", "active", "paused"}] /\ quiet' \in SUBSET Markets
        BY <1>0, <2>1
    <2>3. ActiveWasTold' /\ DiscoveredOnce' /\ UnseenIsUntold'
        BY <1>0, <2>1 DEF ActiveWasTold, DiscoveredOnce, UnseenIsUntold
    <2> QED BY <1>0, <2>1, <2>2, <2>3 DEF IngestInv, IngestTypeOK, Tellings
<1>4. CASE UNCHANGED ingest_vars
    BY <1>0, <1>4 DEF ingest_vars, IngestInv, IngestTypeOK, Tellings, ActiveWasTold, DiscoveredOnce, UnseenIsUntold
<1> QED BY <1>1, <1>2, <1>3, <1>4, <1>5, <1>6, <1>7 DEF IngestNext

\* The inductive invariant: types, the two promises of the log whatever other services write
\* into the registry from copies that grew old, and that the worker remembers
\* whom it told as discovered.  (ingest_raw_market, _classify_and_emit)
THEOREM IngestInvariance == IngestSpec => []IngestInv
<1>1. IngestInv /\ [IngestNext]_ingest_vars => IngestInv'
    BY IngestStep
<1> QED BY <1>1, IngestInitInv, PTL DEF IngestSpec

\* Every variable keeps its type, the paused copies of markets that are left out included.
THEOREM IngestTypeCorrect == IngestSpec => []IngestTypeOK
<1>1. IngestInv => IngestTypeOK
    BY DEF IngestInv
<1> QED BY <1>1, IngestInvariance, PTL

\* What the registry holds as active was last told to the log as discovered or updated, unless
\* another service changed it since a listing did, and no market is discovered twice, for any
\* reasons to leave a market out and any course of the listings, the account, the prunes and
\* what is written back.  (_apply_filter_dedupe, _classify_and_emit, _apply_refreshed_market)
THEOREM LogIsTold == IngestSpec => []LogFollowsRegistry
<1>1. IngestInv => LogFollowsRegistry
    BY DEF IngestInv, LogFollowsRegistry
<1> QED BY <1>1, IngestInvariance, PTL

----------------------------------------------------------------------------
(* What is computed one step after the other. *)

\* What holds at the start and goes on from each number to the next holds of all.
LEMMA Climbs ==
    ASSUME NEW n \in Nat, NEW G \in SUBSET (0 .. n), 0 \in G,
           \A k \in 1 .. n : k - 1 \in G => k \in G
    PROVE  \A k \in 0 .. n : k \in G
<1> SUFFICES ASSUME 0 .. n \ G # {} PROVE FALSE
    OBVIOUS
<1> DEFINE least == Min(0 .. n \ G)
<1>1. 0 .. n \ G \in SUBSET Nat
    OBVIOUS
<1>2. least \in 0 .. n \ G /\ \A k \in 0 .. n \ G : least <= k
    BY <1>1, LeastOfNaturals
<1> HIDE DEF least
<1>3. least \in 1 .. n /\ least - 1 \in 0 .. n /\ ~ (least <= least - 1)
    BY <1>2
<1>4. least - 1 \in G
    BY <1>2, <1>3
<1> QED BY <1>2, <1>3, <1>4

\* The values f takes from 0 to n come from base, one step after the other.
Stepwise(f, n, base, step) == f[0] = base /\ \A k \in 1 .. n : f[k] = step[<<f[k - 1], k>>]

\* A function may be given by its first value and a step from each value to the next.
LEMMA StepsDefine ==
    ASSUME NEW S, NEW n \in Nat, NEW base \in S, NEW step \in [S \X (1 .. n) -> S]
    PROVE  \E f \in [0 .. n -> S] : Stepwise(f, n, base, step)
<1> DEFINE Upto(i, f) == f[0] = base /\ \A k \in 1 .. i : f[k] = step[<<f[k - 1], k>>]
           G == {i \in 0 .. n : \E f \in [0 .. n -> S] : Upto(i, f)}
<1>1. 0 \in G
    <2> DEFINE b == [k \in 0 .. n |-> base]
    <2>1. b \in [0 .. n -> S] /\ Upto(0, b) /\ 0 \in 0 .. n
        OBVIOUS
    <2> HIDE DEF b
    <2> QED BY <2>1
<1>2. ASSUME NEW i \in 1 .. n, i - 1 \in G
      PROVE  i \in G
    <2>1. PICK f \in [0 .. n -> S] : Upto(i - 1, f)
        BY <1>2
    <2>2. i - 1 \in 0 .. n /\ <<f[i - 1], i>> \in S \X (1 .. n)
        BY <2>1
    <2> DEFINE x == step[<<f[i - 1], i>>]
               g == [k \in 0 .. n |-> IF k = i THEN x ELSE f[k]]
    <2>3. x \in S
        BY <2>2
    <2> HIDE DEF x
    <2>4. g \in [0 .. n -> S]
        BY <2>1, <2>3
    <2>5. g[0] = base
        BY <2>1
    <2>6. ASSUME NEW k \in 1 .. i
          PROVE  g[k] = step[<<g[k - 1], k>>]
        <3>1. k \in 0 .. n /\ k - 1 \in 0 .. n /\ k - 1 # i
            OBVIOUS
        <3>2. g[k - 1] = f[k - 1]
            BY <3>1
        <3>3. CASE k = i
            BY <3>1, <3>2, <3>3 DEF x
        <3>4. CASE k # i
            <4>1. k \in 1 .. i - 1 /\ g[k] = f[k]
                BY <3>1, <3>4
            <4> QED BY <4>1, <3>2, <2>1
        <3> QED BY <3>3, <3>4
    <2>7. Upto(i, g)
        BY <2>5, <2>6
    <2> HIDE DEF g
    <2> QED BY <2>4, <2>7
<1>3. n \in G
    <2> HIDE DEF G
    <2>1. G \in SUBSET (0 .. n)
        BY DEF G
    <2> QED BY <1>1, <1>2, <2>1, Climbs
<1> QED BY <1>3 DEF Stepwise

----------------------------------------------------------------------------
(* Pregame odds: one market after the other. *)

Stores ==
    [records : [ListedMarkets -> Records \cup {Absent}],
     alias : [Games -> ListedMarkets \cup {Absent}]]

Snapshots == [Games -> MoneyLines \cup {Absent}]

LEMMA ListIs ==
    /\ Len(Listed) \in Nat
    /\ \A k \in 1 .. Len(Listed) : Listed[k] \in ListedMarkets
    /\ \A m \in ListedMarkets : GameOf(m) \in Games
    /\ \A m \in ListedMarkets : \E k \in 1 .. Len(Listed) : Listed[k] = m
<1>1. Len(Listed) \in Nat /\ DOMAIN Listed = 1 .. Len(Listed)
    BY OddsAssumption, LenProperties
<1> QED BY <1>1 DEF ListedMarkets, Games

LEMMA PutIs ==
    ASSUME NEW store \in Stores, NEW m \in ListedMarkets, NEW record \in Records
    PROVE  /\ Put(store, m, record) \in Stores
           /\ Put(store, m, record).records = [store.records EXCEPT ![m] = record]
<1>1. GameOf(m) \in Games
    BY ListIs
<1>2. [store.records EXCEPT ![m] = record] \in [ListedMarkets -> Records \cup {Absent}]
    BY DEF Stores
<1>3. [store.alias EXCEPT ![GameOf(m)] = m] \in [Games -> ListedMarkets \cup {Absent}]
    BY <1>1 DEF Stores
<1> QED BY <1>2, <1>3 DEF Put, Stores

\* A market of which no record is found has none of its own.
LEMMA FindIs ==
    ASSUME NEW store \in Stores, NEW m \in ListedMarkets
    PROVE  /\ Find(store, m) \in Records \cup {Absent}
           /\ Find(store, m) = Absent => store.records[m] = Absent
<1>1. /\ store.records[m] \in Records \cup {Absent}
      /\ store.alias[GameOf(m)] \in ListedMarkets \cup {Absent}
      /\ \A n \in ListedMarkets : store.records[n] \in Records \cup {Absent}
    BY ListIs DEF Stores
<1> QED BY <1>1 DEF Find

\* What one market's turn leaves.
LEMMA RefreshedIs ==
    ASSUME NEW store \in Stores, NEW m \in ListedMarkets, NEW snapshot \in Snapshots
    PROVE  /\ Refreshed(store, m, snapshot) \in Stores
           /\ \A n \in ListedMarkets \ {m} :
                 Refreshed(store, m, snapshot).records[n] = store.records[n]
           /\ snapshot[GameOf(m)] = Absent => Refreshed(store, m, snapshot) = store
           /\ snapshot[GameOf(m)] # Absent =>
                 \/ Refreshed(store, m, snapshot).records[m] = Absent
                 \/ Refreshed(store, m, snapshot).records[m].line = snapshot[GameOf(m)]
<1> DEFINE record == Find(store, m)
           line == snapshot[GameOf(m)]
<1>1. line \in MoneyLines \cup {Absent}
    BY ListIs DEF Snapshots
<1>2. CASE record = Absent \/ line = Absent
    <2>1. Refreshed(store, m, snapshot) = store
        BY <1>2 DEF Refreshed
    <2> QED BY <1>2, <2>1, FindIs
<1>3. CASE record # Absent /\ line # Absent
    <2> DEFINE new == [record EXCEPT !.line = line]
    <2>1. record \in Records
        BY <1>3, FindIs
    <2> HIDE DEF record
    <2>2. new \in Records /\ new.line = line
        BY <1>1, <2>1 DEF Records
    <2>3. Refreshed(store, m, snapshot) = Put(store, m, new)
        BY <1>3 DEF Refreshed, record
    <2> HIDE DEF new, line
    <2>4. store.records \in [ListedMarkets -> Records \cup {Absent}]
        BY DEF Stores
    <2>5. /\ Refreshed(store, m, snapshot) \in Stores
          /\ Refreshed(store, m, snapshot).records = [store.records EXCEPT ![m] = new]
        BY <2>2, <2>3, PutIs
    <2> QED BY <1>3, <2>2, <2>4, <2>5 DEF line
<1> QED BY <1>2, <1>3

\* After a round each record shows what the snapshot has of its match, and what the
\* snapshot does not have is as it was.
LEMMA WrittenIs ==
    ASSUME Store \in Stores, NEW snapshot \in Snapshots
    PROVE  /\ Written(snapshot) \in Stores
           /\ \A m \in ListedMarkets :
                 /\ snapshot[GameOf(m)] = Absent => Written(snapshot).records[m] = records[m]
                 /\ snapshot[GameOf(m)] # Absent =>
                       \/ Written(snapshot).records[m] = Absent
                       \/ Written(snapshot).records[m].line = snapshot[GameOf(m)]
<1> DEFINE n == Len(Listed)
           Steps_(f) == f = [k \in 0 .. n |-> IF k = 0 THEN Store
                                             ELSE Refreshed(f[k - 1], Listed[k], snapshot)]
           after == CHOOSE f : Steps_(f)
<1>1. n \in Nat
    BY ListIs
<1>2. \E f : Steps_(f)
    <2> DEFINE step == [x \in Stores \X (1 .. n) |-> Refreshed(x[1], Listed[x[2]], snapshot)]
    <2>1. step \in [Stores \X (1 .. n) -> Stores]
        BY ListIs, RefreshedIs
    <2>2. \A x \in Stores, k \in 1 .. n : step[<<x, k>>] = Refreshed(x, Listed[k], snapshot)
        OBVIOUS
    <2> HIDE DEF step
    <2>3. PICK f \in [0 .. n -> Stores] : Stepwise(f, n, Store, step)
        BY <1>1, <2>1, StepsDefine
    <2>4. \A k \in 0 .. n : f[k] = IF k = 0 THEN Store ELSE Refreshed(f[k - 1], Listed[k], snapshot)
        <3> SUFFICES ASSUME NEW k \in 0 .. n, k # 0
                     PROVE  f[k] = Refreshed(f[k - 1], Listed[k], snapshot)
            BY <2>3 DEF Stepwise
        <3>1. k \in 1 .. n /\ k - 1 \in 0 .. n /\ f[k - 1] \in Stores
            BY <1>1
        <3> QED BY <2>2, <2>3, <3>1 DEF Stepwise
    <2>5. DOMAIN f = 0 .. n /\ f = [k \in 0 .. n |-> f[k]]
        BY <2>3
    <2>6. Steps_(f)
        BY <2>4, <2>5
    <2> QED BY <2>6
<1>3. Steps_(after)
    BY <1>2
<1>4. Written(snapshot) = after[n]
    BY DEF Written
<1> HIDE DEF after
<1>5. after[0] = Store /\ \A k \in 1 .. n : after[k] = Refreshed(after[k - 1], Listed[k], snapshot)
    <2>1. after[0] = Store
        BY <1>1, <1>3
    <2>2. ASSUME NEW k \in 1 .. n PROVE after[k] = Refreshed(after[k - 1], Listed[k], snapshot)
        <3>1. k \in 0 .. n /\ k # 0
            BY <1>1
        <3> QED BY <1>3, <3>1
    <2> QED BY <2>1, <2>2
<1> DEFINE Shown(k, m) ==
              /\ snapshot[GameOf(m)] = Absent => after[k].records[m] = records[m]
              /\ snapshot[GameOf(m)] # Absent =>
                    \/ after[k].records[m] = Absent
                    \/ after[k].records[m].line = snapshot[GameOf(m)]
                    \/ \A j \in 1 .. k : Listed[j] # m
           G == {k \in 0 .. n : after[k] \in Stores /\ \A m \in ListedMarkets : Shown(k, m)}
<1>6. 0 \in G
    BY <1>1, <1>5 DEF Store
<1>7. ASSUME NEW k \in 1 .. n, k - 1 \in G
      PROVE  k \in G
    <2>1. k \in 0 .. n /\ after[k - 1] \in Stores /\ Listed[k] \in ListedMarkets
        BY <1>1, <1>7, ListIs
    <2>2. after[k] = Refreshed(after[k - 1], Listed[k], snapshot)
        BY <1>5
    <2>3. ASSUME NEW m \in ListedMarkets PROVE Shown(k, m)
        <3>1. Shown(k - 1, m)
            BY <1>7
        <3>2. CASE m = Listed[k]
            <4>1. snapshot[GameOf(m)] = Absent => after[k] = after[k - 1]
                BY <2>1, <2>2, <3>2, RefreshedIs
            <4>2. snapshot[GameOf(m)] # Absent =>
                     after[k].records[m] = Absent \/ after[k].records[m].line = snapshot[GameOf(m)]
                BY <2>1, <2>2, <3>2, RefreshedIs
            <4> QED BY <3>1, <4>1, <4>2
        <3>3. CASE m # Listed[k]
            <4>1. after[k].records[m] = after[k - 1].records[m]
                BY <2>1, <2>2, <3>3, RefreshedIs
            <4>2. (\A j \in 1 .. k - 1 : Listed[j] # m) => \A j \in 1 .. k : Listed[j] # m
                <5>1. \A j \in 1 .. k : j \in 1 .. k - 1 \/ j = k
                    BY <1>1
                <5> QED BY <3>3, <5>1
            <4> QED BY <3>1, <4>1, <4>2
        <3> QED BY <3>2, <3>3
    <2>4. after[k] \in Stores
        BY <2>1, <2>2, RefreshedIs
    <2> HIDE DEF Shown
    <2> QED BY <2>1, <2>3, <2>4
<1>8. n \in G
    <2> HIDE DEF G
    <2>1. G \in SUBSET (0 .. n) /\ n \in 0 .. n
        BY <1>1 DEF G
    <2> QED BY <1>1, <1>6, <1>7, <2>1, Climbs
<1>9. after[n] \in Stores /\ \A m \in ListedMarkets : Shown(n, m)
    BY <1>8
<1>10. \A m \in ListedMarkets : ~ \A j \in 1 .. n : Listed[j] # m
    BY ListIs
<1> QED BY <1>4, <1>9, <1>10

LEMMA TakenIs ==
    ASSUME OddsTypeOK, NEW store \in Stores, NEW m \in ListedMarkets, NEW g \in Games,
           clock[g] < MaxClock
    PROVE  /\ Taken(store, m, g) \in Stores
           /\ \A n \in ListedMarkets : \/ Taken(store, m, g).records[n] = store.records[n]
                                       \/ Taken(store, m, g).records[n].line = Absent
<1> DEFINE new == [taken |-> clock[g] + 1, line |-> Absent]
<1>1. new \in Records /\ new.line = Absent
    <2>1. clock[g] \in Nat /\ clock[g] + 1 \in 1 .. MaxClock
        BY OddsAssumption DEF OddsTypeOK
    <2> QED BY <2>1 DEF Records
<1> HIDE DEF new
<1>2. Taken(store, m, g) \in {store, Put(store, m, new)}
    BY DEF Taken, new
<1>3. store.records \in [ListedMarkets -> Records \cup {Absent}]
    BY DEF Stores
<1>4. /\ Put(store, m, new) \in Stores
      /\ Put(store, m, new).records = [store.records EXCEPT ![m] = new]
    BY <1>1, PutIs
<1>5. CASE Taken(store, m, g) = store
    BY <1>5
<1>6. CASE Taken(store, m, g) = Put(store, m, new)
    BY <1>1, <1>3, <1>4, <1>6
<1> QED BY <1>2, <1>5, <1>6

\* A live frame leaves each record as it was, or puts one without a line in its place.
LEMMA AppliedIs ==
    ASSUME OddsTypeOK, NEW g \in Games, clock[g] < MaxClock
    PROVE  /\ Applied(g) \in Stores
           /\ \A m \in ListedMarkets : \/ Applied(g).records[m] = records[m]
                                       \/ Applied(g).records[m].line = Absent
<1> DEFINE n == Len(Listed)
           Frames(f) == f = [k \in 0 .. n |-> IF k = 0 THEN Store
                                             ELSE Taken(f[k - 1], Listed[k], g)]
           after == CHOOSE f : Frames(f)
<1>1. n \in Nat /\ Store \in Stores
    BY ListIs DEF OddsTypeOK, Store, Stores
<1>2. \E f : Frames(f)
    <2> DEFINE step == [x \in Stores \X (1 .. n) |-> Taken(x[1], Listed[x[2]], g)]
    <2>1. step \in [Stores \X (1 .. n) -> Stores]
        BY ListIs, TakenIs
    <2>2. \A x \in Stores, k \in 1 .. n : step[<<x, k>>] = Taken(x, Listed[k], g)
        OBVIOUS
    <2> HIDE DEF step
    <2>3. PICK f \in [0 .. n -> Stores] : Stepwise(f, n, Store, step)
        BY <1>1, <2>1, StepsDefine
    <2>4. \A k \in 0 .. n : f[k] = IF k = 0 THEN Store ELSE Taken(f[k - 1], Listed[k], g)
        <3> SUFFICES ASSUME NEW k \in 0 .. n, k # 0
                     PROVE  f[k] = Taken(f[k - 1], Listed[k], g)
            BY <2>3 DEF Stepwise
        <3>1. k \in 1 .. n /\ k - 1 \in 0 .. n /\ f[k - 1] \in Stores
            BY <1>1
        <3> QED BY <2>2, <2>3, <3>1 DEF Stepwise
    <2>5. DOMAIN f = 0 .. n /\ f = [k \in 0 .. n |-> f[k]]
        BY <2>3
    <2>6. Frames(f)
        BY <2>4, <2>5
    <2> QED BY <2>6
<1>3. Frames(after)
    BY <1>2
<1>4. Applied(g) = after[n]
    BY DEF Applied
<1> HIDE DEF after
<1>5. after[0] = Store /\ \A k \in 1 .. n : after[k] = Taken(after[k - 1], Listed[k], g)
    <2>1. after[0] = Store
        BY <1>1, <1>3
    <2>2. ASSUME NEW k \in 1 .. n PROVE after[k] = Taken(after[k - 1], Listed[k], g)
        <3>1. k \in 0 .. n /\ k # 0
            BY <1>1
        <3> QED BY <1>3, <3>1
    <2> QED BY <2>1, <2>2
<1> DEFINE Blank(k, m) == after[k].records[m] = records[m] \/ after[k].records[m].line = Absent
           G == {k \in 0 .. n : after[k] \in Stores /\ \A m \in ListedMarkets : Blank(k, m)}
<1>6. 0 \in G
    BY <1>1, <1>5 DEF Store
<1>7. ASSUME NEW k \in 1 .. n, k - 1 \in G
      PROVE  k \in G
    <2>1. k \in 0 .. n /\ after[k - 1] \in Stores /\ Listed[k] \in ListedMarkets
        BY <1>1, <1>7, ListIs
    <2>2. after[k] = Taken(after[k - 1], Listed[k], g)
        BY <1>5
    <2>3. after[k] \in Stores
        BY <2>1, <2>2, TakenIs
    <2>4. \A m \in ListedMarkets : \/ after[k].records[m] = after[k - 1].records[m]
                                   \/ after[k].records[m].line = Absent
        BY <2>1, <2>2, TakenIs
    <2>5. \A m \in ListedMarkets : Blank(k, m)
        BY <1>7, <2>4
    <2> HIDE DEF Blank
    <2> QED BY <2>1, <2>3, <2>5
<1>8. n \in G
    <2> HIDE DEF G
    <2>1. G \in SUBSET (0 .. n) /\ n \in 0 .. n
        BY <1>1 DEF G
    <2> QED BY <1>1, <1>6, <1>7, <2>1, Climbs
<1> QED BY <1>4, <1>8

----------------------------------------------------------------------------
(* Pregame odds: the inductive invariant. *)

\* The worker has not seen a version the provider has not reached.
ChangesAreKnown ==
    worker.ts <= feed.version /\ \A g \in Games : feed.of[g].at <= feed.version

OddsInv == OddsTypeOK /\ ChangesAreKnown /\ LineIsCurrent

LEMMA OddsInitInv == OddsInit => OddsInv
<1> SUFFICES ASSUME OddsInit PROVE OddsInv
    OBVIOUS
<1>1. OddsTypeOK
    BY OddsAssumption DEF OddsInit, OddsTypeOK, MoneyLines, NoAnswer
<1>2. ChangesAreKnown
    BY DEF OddsInit, ChangesAreKnown
<1>3. LineIsCurrent
    BY DEF OddsInit, LineIsCurrent
<1> QED BY <1>1, <1>2, <1>3 DEF OddsInv

LEMMA QuoteInv ==
    ASSUME OddsInv, NEW g \in Games, NEW quote \in Quotes \cup {Absent}, QuoteChanges(g, quote)
    PROVE  OddsInv'
<1>1. /\ feed.version \in 1 .. MaxVersion /\ feed.of \in [Games -> MoneyLines]
      /\ worker.ts \in 0 .. MaxVersion /\ worker.ts <= feed.version
      /\ \A h \in Games : feed.of[h].at \in 1 .. MaxVersion /\ feed.of[h].at <= feed.version
    BY DEF OddsInv, OddsTypeOK, ChangesAreKnown, MoneyLines
<1> DEFINE line == [quote |-> quote, at |-> feed.version + 1]
<1>2. feed.version + 1 \in 1 .. MaxVersion /\ line \in MoneyLines
    BY <1>1, OddsAssumption DEF QuoteChanges, MoneyLines
<1>3. /\ feed'.version = feed.version + 1 /\ feed'.of = [feed.of EXCEPT ![g] = line]
      /\ feed' = [version |-> feed'.version, of |-> feed'.of]
      /\ UNCHANGED <<worker, clock, accepted, records, alias>>
    BY DEF QuoteChanges
<1> HIDE DEF line
<1>4. /\ feed'.of \in [Games -> MoneyLines]
      /\ feed'.of[g] = line
      /\ \A h \in Games \ {g} : feed'.of[h] = feed.of[h]
    BY <1>1, <1>2, <1>3
<1>5. OddsTypeOK'
    BY <1>2, <1>3, <1>4 DEF OddsInv, OddsTypeOK
<1>6. line.at = feed.version + 1
    BY DEF line
<1>7. ChangesAreKnown'
    BY <1>1, <1>3, <1>4, <1>6, OddsAssumption DEF ChangesAreKnown
<1>8. LineIsCurrent'
    <2> SUFFICES ASSUME NEW m \in ListedMarkets, records'[m] # Absent,
                        feed'.of[GameOf(m)].quote # Absent, feed'.of[GameOf(m)].at <= worker'.ts
                 PROVE  records'[m].line \in {Absent, feed'.of[GameOf(m)]}
        BY DEF LineIsCurrent
    <2>1. GameOf(m) \in Games
        BY ListIs
    <2>2. GameOf(m) # g
        BY <1>1, <1>3, <1>4, <1>6, OddsAssumption
    <2> QED BY <1>3, <1>4, <2>1, <2>2 DEF OddsInv, LineIsCurrent
<1> QED BY <1>5, <1>7, <1>8 DEF OddsInv

LEMMA FrameInv ==
    ASSUME OddsInv, NEW g \in Games, LiveFrame(g)
    PROVE  OddsInv'
<1>1. OddsTypeOK /\ clock[g] < MaxClock
    BY DEF OddsInv, LiveFrame
<1>2. /\ Applied(g) \in Stores
      /\ \A m \in ListedMarkets : records'[m] = records[m] \/ records'[m].line = Absent
      /\ records' = Applied(g).records /\ alias' = Applied(g).alias
    BY <1>1, AppliedIs DEF LiveFrame
<1>3. clock' \in [Games -> 0 .. MaxClock]
    BY <1>1, OddsAssumption DEF OddsTypeOK, LiveFrame
<1>4. OddsTypeOK'
    BY <1>1, <1>2, <1>3 DEF OddsTypeOK, LiveFrame, Stores
<1>5. ChangesAreKnown'
    BY DEF OddsInv, ChangesAreKnown, LiveFrame
<1>6. LineIsCurrent'
    BY <1>2 DEF OddsInv, LineIsCurrent, LiveFrame
<1> QED BY <1>4, <1>5, <1>6 DEF OddsInv

LEMMA EvictInv ==
    ASSUME OddsInv, NEW m \in ListedMarkets, Evict(m)
    PROVE  OddsInv'
<1>1. OddsTypeOK'
    BY ListIs DEF OddsInv, OddsTypeOK, Evict
<1>2. ChangesAreKnown'
    BY DEF OddsInv, ChangesAreKnown, Evict
<1>3. \A n \in ListedMarkets : records'[n] = records[n] \/ records'[n] = Absent
    BY DEF OddsInv, OddsTypeOK, Evict
<1>4. LineIsCurrent'
    BY <1>3 DEF OddsInv, LineIsCurrent, Evict
<1> QED BY <1>1, <1>2, <1>4 DEF OddsInv

\* A round: what changed since the last answer is in the snapshot, the rest was current.
LEMMA SyncInv ==
    ASSUME OddsInv, NEW failed \in BOOLEAN, SyncOnce(failed)
    PROVE  OddsInv'
<1> DEFINE snapshot == IF failed THEN NoAnswer ELSE Answer(worker.ts)
<1>1. /\ feed.version \in 1 .. MaxVersion /\ feed.of \in [Games -> MoneyLines]
      /\ worker.ts \in 0 .. MaxVersion /\ worker.ts <= feed.version
      /\ Store \in Stores
    BY DEF OddsInv, OddsTypeOK, ChangesAreKnown, Store, Stores
<1>2. snapshot \in Snapshots
    BY <1>1 DEF NoAnswer, Answer, Snapshots
<1>3. /\ worker' = [snapshot |-> snapshot, ts |-> TsAfter(worker.ts, failed)]
      /\ records' = Written(snapshot).records /\ alias' = Written(snapshot).alias
      /\ UNCHANGED <<feed, clock, accepted>>
    BY DEF SyncOnce
<1>4. \A m \in ListedMarkets :
         /\ failed => snapshot[GameOf(m)] = Absent
         /\ ~failed /\ feed.of[GameOf(m)].quote # Absent /\ feed.of[GameOf(m)].at > worker.ts =>
               snapshot[GameOf(m)] = feed.of[GameOf(m)] /\ snapshot[GameOf(m)] # Absent
         /\ snapshot[GameOf(m)] \in {Absent, feed.of[GameOf(m)]}
    BY <1>1, ListIs, OddsAssumption DEF NoAnswer, Answer
<1> HIDE DEF snapshot
<1>5. /\ Written(snapshot) \in Stores
      /\ \A m \in ListedMarkets :
            /\ snapshot[GameOf(m)] = Absent => records'[m] = records[m]
            /\ snapshot[GameOf(m)] # Absent =>
                  records'[m] = Absent \/ records'[m].line = snapshot[GameOf(m)]
    BY <1>1, <1>2, <1>3, WrittenIs
<1>6. /\ TsAfter(worker.ts, failed) \in 0 .. MaxVersion
      /\ TsAfter(worker.ts, failed) <= feed.version
      /\ failed => TsAfter(worker.ts, failed) = worker.ts
    BY <1>1, OddsAssumption DEF TsAfter
<1>7. OddsTypeOK'
    BY <1>2, <1>3, <1>5, <1>6 DEF OddsInv, OddsTypeOK, Stores, Snapshots
<1>8. ChangesAreKnown'
    BY <1>3, <1>6 DEF OddsInv, ChangesAreKnown
<1>9. LineIsCurrent'
    <2> SUFFICES ASSUME NEW m \in ListedMarkets, records'[m] # Absent,
                        feed.of[GameOf(m)].quote # Absent, feed.of[GameOf(m)].at <= worker'.ts
                 PROVE  records'[m].line \in {Absent, feed.of[GameOf(m)]}
        BY <1>3 DEF LineIsCurrent
    <2>1. feed.of[GameOf(m)].at \in Int
        BY <1>1, ListIs DEF MoneyLines
    <2>2. CASE snapshot[GameOf(m)] # Absent
        BY <1>4, <1>5, <2>2
    <2>3. CASE snapshot[GameOf(m)] = Absent
        <3>1. feed.of[GameOf(m)].at <= worker.ts
            BY <1>1, <1>3, <1>4, <1>6, <2>1, <2>3
        <3> QED BY <1>5, <2>3, <3>1 DEF OddsInv, LineIsCurrent
    <2> QED BY <2>2, <2>3
<1> QED BY <1>7, <1>8, <1>9 DEF OddsInv

LEMMA OddsStep == OddsInv /\ [OddsNext]_odds_vars => OddsInv'
<1> SUFFICES ASSUME OddsInv, [OddsNext]_odds_vars PROVE OddsInv'
    OBVIOUS
<1>1. CASE UNCHANGED odds_vars
    BY <1>1 DEF odds_vars, OddsInv, OddsTypeOK, ChangesAreKnown, LineIsCurrent
<1>2. CASE OddsNext
    BY <1>2, QuoteInv, FrameInv, EvictInv, SyncInv DEF OddsNext
<1> QED BY <1>1, <1>2

THEOREM OddsInvariance == OddsSpec => []OddsInv
<1>1. OddsInv /\ [OddsNext]_odds_vars => OddsInv'
    BY OddsStep
<1> QED BY <1>1, OddsInitInv, PTL DEF OddsSpec

\* Every variable keeps its type, whatever records are found by their event and copied.
THEOREM OddsTypeCorrect == OddsSpec => []OddsTypeOK
<1>1. OddsInv => OddsTypeOK
    BY DEF OddsInv
<1> QED BY <1>1, OddsInvariance, PTL

\* The line in a record is the provider's latest as soon as the worker's timestamp has passed
\* its change, for any list of markets, matches they share and moneylines, whatever rounds
\* failed and whichever record was copied.  (sync_once, _write_pregame_metadata)
THEOREM LineStaysCurrent == OddsSpec => []LineIsCurrent
<1>1. OddsInv => LineIsCurrent
    BY DEF OddsInv
<1> QED BY <1>1, OddsInvariance, PTL

----------------------------------------------------------------------------
(* The database's tables: what is picked out of a sequence, and what an upsert *)
(* leaves of the rows.                                                         *)

LEMMA RangeOfAppend ==
    ASSUME NEW A, NEW s \in Seq(A), NEW x \in A
    PROVE  Append(s, x) \in Seq(A) /\ Range(Append(s, x)) = Range(s) \cup {x}
<1>1. /\ Append(s, x) \in Seq(A) /\ Len(Append(s, x)) = Len(s) + 1 /\ Len(s) \in Nat
      /\ DOMAIN s = 1 .. Len(s) /\ DOMAIN Append(s, x) = 1 .. Len(s) + 1
      /\ \A i \in 1 .. Len(s) : Append(s, x)[i] = s[i]
      /\ Append(s, x)[Len(s) + 1] = x
    BY AppendProperties, LenProperties
<1>2. \A i \in 1 .. Len(s) + 1 : i \in 1 .. Len(s) \/ i = Len(s) + 1
    BY <1>1
<1> QED BY <1>1, <1>2 DEF Range

LEMMA AmongIs ==
    ASSUME NEW A, NEW s \in Seq(A), NEW S
    PROVE  /\ Among(s, S) \in Seq(A)
           /\ Range(Among(s, S)) = Range(s) \cap S
<1> DEFINE n == Len(s)
           Picks(f) == f = [k \in 0 .. n |-> IF k = 0 THEN <<>>
                                            ELSE IF s[k] \in S THEN Append(f[k - 1], s[k])
                                                               ELSE f[k - 1]]
           kept == CHOOSE f : Picks(f)
<1>1. n \in Nat /\ DOMAIN s = 1 .. n /\ \A k \in 1 .. n : s[k] \in A
    BY LenProperties, ElementOfSeq
<1>2. \E f : Picks(f) /\ f \in [0 .. n -> Seq(A)]
    <2> DEFINE step == [x \in Seq(A) \X (1 .. n) |->
                          IF s[x[2]] \in S THEN Append(x[1], s[x[2]]) ELSE x[1]]
    <2>1. step \in [Seq(A) \X (1 .. n) -> Seq(A)]
        <3>1. ASSUME NEW x \in Seq(A) \X (1 .. n) PROVE step[x] \in Seq(A)
            <4>1. x[1] \in Seq(A) /\ s[x[2]] \in A
                BY <1>1
            <4> QED BY <4>1, AppendProperties
        <3> QED BY <3>1
    <2>2. \A x \in Seq(A), k \in 1 .. n :
             step[<<x, k>>] = IF s[k] \in S THEN Append(x, s[k]) ELSE x
        OBVIOUS
    <2> HIDE DEF step
    <2>3. <<>> \in Seq(A)
        OBVIOUS
    <2>4. PICK f \in [0 .. n -> Seq(A)] : Stepwise(f, n, <<>>, step)
        BY <1>1, <2>1, <2>3, StepsDefine
    <2>5. \A k \in 0 .. n : f[k] = IF k = 0 THEN <<>>
                                   ELSE IF s[k] \in S THEN Append(f[k - 1], s[k]) ELSE f[k - 1]
        <3> SUFFICES ASSUME NEW k \in 0 .. n, k # 0
                     PROVE  f[k] = IF s[k] \in S THEN Append(f[k - 1], s[k]) ELSE f[k - 1]
            BY <2>4 DEF Stepwise
        <3>1. k \in 1 .. n /\ k - 1 \in 0 .. n /\ f[k - 1] \in Seq(A)
            BY <1>1
        <3> QED BY <2>2, <2>4, <3>1 DEF Stepwise
    <2>6. DOMAIN f = 0 .. n /\ f = [k \in 0 .. n |-> f[k]]
        BY <2>4
    <2>7. Picks(f)
        BY <2>5, <2>6
    <2> QED BY <2>7
<1>3. Picks(kept)
    BY <1>2
<1>4. Among(s, S) = kept[n]
    BY DEF Among
<1> HIDE DEF kept
<1>5. /\ kept[0] = <<>>
      /\ \A k \in 1 .. n : kept[k] = IF s[k] \in S THEN Append(kept[k - 1], s[k]) ELSE kept[k - 1]
    <2>1. kept[0] = <<>>
        BY <1>1, <1>3
    <2>2. ASSUME NEW k \in 1 .. n
          PROVE  kept[k] = IF s[k] \in S THEN Append(kept[k - 1], s[k]) ELSE kept[k - 1]
        <3>1. k \in 0 .. n /\ k # 0
            BY <1>1
        <3> QED BY <1>3, <3>1
    <2> QED BY <2>1, <2>2
<1> DEFINE First(k) == {s[j] : j \in 1 .. k}
           G == {k \in 0 .. n : kept[k] \in Seq(A) /\ Range(kept[k]) = First(k) \cap S}
<1>6. 0 \in G
    <2>1. <<>> \in Seq(A) /\ Range(<<>>) = {} /\ First(0) = {}
        BY DEF Range
    <2>2. 0 \in 0 .. n
        BY <1>1
    <2> HIDE DEF First
    <2> QED BY <1>5, <2>1, <2>2
<1>7. ASSUME NEW k \in 1 .. n, k - 1 \in G
      PROVE  k \in G
    <2>1. k \in 0 .. n /\ kept[k - 1] \in Seq(A) /\ Range(kept[k - 1]) = First(k - 1) \cap S
        BY <1>1, <1>7
    <2>2. First(k) = First(k - 1) \cup {s[k]}
        <3>1. \A j \in 1 .. k : j \in 1 .. k - 1 \/ j = k
            BY <1>1
        <3>2. \A j \in 1 .. k - 1 : j \in 1 .. k
            BY <1>1
        <3>3. k \in 1 .. k
            BY <1>1
        <3> QED BY <3>1, <3>2, <3>3
    <2>3. CASE s[k] \in S
        <3>1. kept[k] = Append(kept[k - 1], s[k])
            BY <1>5, <2>3
        <3>2. kept[k] \in Seq(A) /\ Range(kept[k]) = Range(kept[k - 1]) \cup {s[k]}
            BY <1>1, <2>1, <3>1, RangeOfAppend
        <3> HIDE DEF First
        <3> QED BY <2>1, <2>2, <2>3, <3>2
    <2>4. CASE s[k] \notin S
        <3> HIDE DEF First
        <3> QED BY <1>5, <2>1, <2>2, <2>4
    <2> QED BY <2>3, <2>4
<1>8. n \in G
    <2> HIDE DEF G
    <2>1. G \in SUBSET (0 .. n) /\ n \in 0 .. n
        BY <1>1 DEF G
    <2> QED BY <1>1, <1>6, <1>7, <2>1, Climbs
<1>9. First(n) = Range(s)
    BY <1>1 DEF Range
<1> HIDE DEF First
<1> QED BY <1>4, <1>8, <1>9

Rows == [TableKinds -> [Keys -> Ids \cup {Empty}]]

\* Each row is under the key of the event it was last written from.
KeyTrue(T) ==
    \A kind \in TableKinds, key \in Keys :
        T[kind][key] # Empty => T[kind][key] \in Emitted /\ RowKey(kind, T[kind][key]) = key

GoodRows == {T \in Rows : KeyTrue(T)}

Kept(T, U) == \A kind \in TableKinds, key \in Keys : T[kind][key] # Empty => U[kind][key] # Empty

HasRow(T, kind, i) == Writable(kind, event[i]) => T[kind][RowKey(kind, i)] # Empty

\* The events that have a record of this kind.
OfKind(kind) == {i \in Emitted : kind \in RecordsOf(event[i])}

\* Each record that can be written has a key of its table.
LEMMA RowKeyIs ==
    ASSUME event \in [Ids -> Shapes \cup {Empty}], NEW kind \in TableKinds,
           NEW i \in OfKind(kind), Writable(kind, event[i])
    PROVE  RowKey(kind, i) \in Keys
<1>1. i \in Ids /\ event[i] \in Shapes /\ kind \in RecordsOf(event[i])
    BY DEF OfKind, Emitted
<1>2. event[i].type \in Types /\ event[i].order \in OrderForms
    BY <1>1, ShapesAssumption
<1>3. CASE kind \in {"audit", "outbox"}
    BY <1>1, <1>3 DEF RowKey, Keys
<1>4. CASE kind = "order"
    <2>1. event[i].order \in {"exchange", "local"}
        BY <1>1, <1>2, <1>4 DEF Writable, RecordsOf, OrderForms
    <2> QED BY <1>4, <2>1 DEF RowKey, Keys
<1>5. CASE kind \in {"fill", "position"}
    BY <1>5 DEF RowKey, Keys
<1> QED BY <1>3, <1>4, <1>5 DEF TableKinds

LEMMA UpsertIs ==
    ASSUME event \in [Ids -> Shapes \cup {Empty}], NEW T \in GoodRows,
           NEW kind \in TableKinds, NEW i \in OfKind(kind)
    PROVE  /\ Upsert(T, kind, i) \in GoodRows
           /\ Kept(T, Upsert(T, kind, i))
           /\ HasRow(Upsert(T, kind, i), kind, i)
<1>1. i \in Ids /\ i \in Emitted /\ i # Empty
    BY ShapesAssumption DEF OfKind, Emitted
<1>2. CASE ~Writable(kind, event[i])
    BY <1>2 DEF Upsert, Kept, HasRow
<1>3. CASE Writable(kind, event[i])
    <2> DEFINE U == Upsert(T, kind, i)
               own == RowKey(kind, i)
    <2>1. own \in Keys
        BY <1>3, RowKeyIs
    <2>2. U = [T EXCEPT ![kind][own] = i]
        BY <1>3 DEF Upsert
    <2> HIDE DEF U, own
    <2>3. T \in Rows /\ KeyTrue(T)
        BY DEF GoodRows
    <2>4. /\ U \in Rows
          /\ U[kind][own] = i
          /\ \A k \in TableKinds, key \in Keys :
                U[k][key] = T[k][key] \/ (k = kind /\ key = own /\ U[k][key] = i)
        BY <1>1, <2>1, <2>2, <2>3 DEF Rows
    <2>5. KeyTrue(U)
        <3> SUFFICES ASSUME NEW k \in TableKinds, NEW key \in Keys, U[k][key] # Empty
                     PROVE  U[k][key] \in Emitted /\ RowKey(k, U[k][key]) = key
            BY DEF KeyTrue
        <3>1. CASE U[k][key] = T[k][key]
            BY <2>3, <3>1 DEF KeyTrue
        <3>2. CASE k = kind /\ key = own /\ U[k][key] = i
            BY <1>1, <3>2 DEF own
        <3> QED BY <2>4, <3>1, <3>2
    <2>6. Kept(T, U)
        BY <1>1, <2>4 DEF Kept
    <2>7. HasRow(U, kind, i)
        BY <1>1, <2>4 DEF HasRow, own
    <2> QED BY <2>4, <2>5, <2>6, <2>7 DEF GoodRows, U
<1> QED BY <1>2, <1>3

\* What is written leaves no row out that there was, and each record that can be written
\* has one.
LEMMA SavedIs ==
    ASSUME event \in [Ids -> Shapes \cup {Empty}], tables \in GoodRows,
           NEW kind \in TableKinds, NEW items \in Seq(OfKind(kind))
    PROVE  /\ Saved(kind, items) \in GoodRows
           /\ Kept(tables, Saved(kind, items))
           /\ \A i \in Range(items) : HasRow(Saved(kind, items), kind, i)
<1> DEFINE n == Len(items)
           Writes(f) == f = [k \in 0 .. n |-> IF k = 0 THEN tables
                                              ELSE Upsert(f[k - 1], kind, items[k])]
           after == CHOOSE f : Writes(f)
<1>1. n \in Nat /\ DOMAIN items = 1 .. n /\ \A k \in 1 .. n : items[k] \in OfKind(kind)
    BY LenProperties, ElementOfSeq
<1>2. \E f : Writes(f)
    <2> DEFINE step == [x \in GoodRows \X (1 .. n) |-> Upsert(x[1], kind, items[x[2]])]
    <2>1. step \in [GoodRows \X (1 .. n) -> GoodRows]
        <3>1. ASSUME NEW x \in GoodRows \X (1 .. n)
              PROVE  Upsert(x[1], kind, items[x[2]]) \in GoodRows
            <4>1. x[1] \in GoodRows /\ items[x[2]] \in OfKind(kind)
                BY <1>1
            <4> QED BY <4>1, UpsertIs
        <3> QED BY <3>1
    <2>2. \A x \in GoodRows, k \in 1 .. n : step[<<x, k>>] = Upsert(x, kind, items[k])
        OBVIOUS
    <2> HIDE DEF step
    <2>3. PICK f \in [0 .. n -> GoodRows] : Stepwise(f, n, tables, step)
        BY <1>1, <2>1, StepsDefine
    <2>4. \A k \in 0 .. n : f[k] = IF k = 0 THEN tables ELSE Upsert(f[k - 1], kind, items[k])
        <3> SUFFICES ASSUME NEW k \in 0 .. n, k # 0
                     PROVE  f[k] = Upsert(f[k - 1], kind, items[k])
            BY <2>3 DEF Stepwise
        <3>1. k \in 1 .. n /\ k - 1 \in 0 .. n /\ f[k - 1] \in GoodRows
            BY <1>1
        <3> QED BY <2>2, <2>3, <3>1 DEF Stepwise
    <2>5. DOMAIN f = 0 .. n /\ f = [k \in 0 .. n |-> f[k]]
        BY <2>3
    <2>6. Writes(f)
        BY <2>4, <2>5
    <2> QED BY <2>6
<1>3. Writes(after)
    BY <1>2
<1>4. Saved(kind, items) = after[n]
    BY DEF Saved
<1> HIDE DEF after
<1>5. after[0] = tables /\ \A k \in 1 .. n : after[k] = Upsert(after[k - 1], kind, items[k])
    <2>1. after[0] = tables
        BY <1>1, <1>3
    <2>2. ASSUME NEW k \in 1 .. n PROVE after[k] = Upsert(after[k - 1], kind, items[k])
        <3>1. k \in 0 .. n /\ k # 0
            BY <1>1
        <3> QED BY <1>3, <3>1
    <2> QED BY <2>1, <2>2
<1> DEFINE Done(k) == /\ after[k] \in GoodRows
                      /\ Kept(tables, after[k])
                      /\ \A j \in 1 .. k : HasRow(after[k], kind, items[j])
           G == {k \in 0 .. n : Done(k)}
<1>6. 0 \in G
    <2>1. Kept(tables, tables) /\ 0 \in 0 .. n /\ \A j \in 1 .. 0 : FALSE
        BY <1>1 DEF Kept
    <2> QED BY <1>5, <2>1
<1>7. ASSUME NEW k \in 1 .. n, k - 1 \in G
      PROVE  k \in G
    <2>1. k \in 0 .. n /\ Done(k - 1) /\ items[k] \in OfKind(kind)
        BY <1>1, <1>7
    <2>2. after[k] = Upsert(after[k - 1], kind, items[k])
        BY <1>5
    <2>3. /\ after[k] \in GoodRows
          /\ Kept(after[k - 1], after[k])
          /\ HasRow(after[k], kind, items[k])
        BY <2>1, <2>2, UpsertIs
    <2>4. Kept(tables, after[k])
        BY <2>1, <2>3 DEF Kept
    <2>5. ASSUME NEW j \in 1 .. k PROVE HasRow(after[k], kind, items[j])
        <3>1. CASE j = k
            BY <2>3, <3>1
        <3>2. CASE j # k
            <4>1. j \in 1 .. k - 1 /\ j \in 1 .. n
                BY <1>1, <3>2
            <4>2. HasRow(after[k - 1], kind, items[j]) /\ items[j] \in OfKind(kind)
                BY <1>1, <2>1, <4>1
            <4>3. Writable(kind, event[items[j]]) => RowKey(kind, items[j]) \in Keys
                BY <4>2, RowKeyIs
            <4> QED BY <2>3, <4>2, <4>3 DEF HasRow, Kept
        <3> QED BY <3>1, <3>2
    <2>6. Done(k)
        BY <2>3, <2>4, <2>5
    <2> HIDE DEF Done
    <2> QED BY <2>1, <2>6
<1>8. n \in G
    <2> HIDE DEF G
    <2>1. G \in SUBSET (0 .. n) /\ n \in 0 .. n
        BY <1>1 DEF G
    <2> QED BY <1>1, <1>6, <1>7, <2>1, Climbs
<1>9. \A i \in Range(items) : \E k \in 1 .. n : items[k] = i
    BY <1>1 DEF Range
<1> QED BY <1>4, <1>8, <1>9

----------------------------------------------------------------------------
(* The database's tables: the inductive invariant. *)

LEMMA PartOfSeq ==
    ASSUME NEW A, NEW s \in Seq(A), NEW m \in 1 .. Len(s) + 1, NEW n \in 0 .. Len(s)
    PROVE  SubSeq(s, m, n) \in Seq(A) /\ Range(SubSeq(s, m, n)) \subseteq Range(s)
<1>1. Len(s) \in Nat /\ DOMAIN s = 1 .. Len(s)
    BY LenProperties
<1>2. /\ SubSeq(s, m, n) \in Seq(A)
      /\ Len(SubSeq(s, m, n)) = IF m <= n THEN n - m + 1 ELSE 0
      /\ \A k \in 1 .. n - m + 1 : SubSeq(s, m, n)[k] = s[m + k - 1]
    BY <1>1, SubSeqProperties
<1>3. DOMAIN SubSeq(s, m, n) = 1 .. Len(SubSeq(s, m, n))
    BY <1>2, LenProperties
<1>4. ASSUME NEW k \in DOMAIN SubSeq(s, m, n) PROVE SubSeq(s, m, n)[k] \in Range(s)
    <2>1. k \in 1 .. n - m + 1 /\ m + k - 1 \in 1 .. Len(s)
        BY <1>1, <1>2, <1>3
    <2> QED BY <1>1, <1>2, <2>1 DEF Range
<1> QED BY <1>2, <1>4 DEF Range

WorkTypeOK ==
    /\ waiting \in Seq(Ids) /\ Range(waiting) \subseteq Emitted
    /\ persist \in [batch : Seq(Ids), left : Seq(TableKinds),
                    written : SUBSET (Ids \X TableKinds), failed : SUBSET Ids]
    /\ Range(persist.batch) \subseteq Emitted

\* A record that counts as written has its row.
WrittenHasRow ==
    \A i \in Ids, kind \in TableKinds :
        <<i, kind>> \in persist.written => i \in OfKind(kind) /\ HasRow(tables, kind, i)

\* So has each record of an event that is acknowledged.
AckedHasRow ==
    \A i \in acked : \A kind \in RecordsOf(event[i]) :
        kind \in TableKinds /\ HasRow(tables, kind, i)

TablesInv ==
    /\ TablesTypeOK /\ WorkTypeOK
    /\ tables \in GoodRows
    /\ WrittenHasRow /\ AckedHasRow

LEMMA TablesInitInv == TablesInit => TablesInv
<1> SUFFICES ASSUME TablesInit PROVE TablesInv
    OBVIOUS
<1>1. Range(<<>>) = {} /\ \A S : <<>> \in Seq(S)
    BY DEF Range
<1>2. TablesTypeOK
    BY <1>1, ShapesAssumption DEF TablesInit, TablesTypeOK
<1>3. WorkTypeOK
    <2>1. waiting = <<>> /\ persist = [batch |-> <<>>, left |-> <<>>, written |-> {}, failed |-> {}]
        BY DEF TablesInit, NoBatch
    <2> QED BY <1>1, <2>1 DEF WorkTypeOK
<1>4. tables \in GoodRows
    BY ShapesAssumption DEF TablesInit, GoodRows, Rows, KeyTrue
<1>5. WrittenHasRow /\ AckedHasRow
    BY DEF TablesInit, NoBatch, WrittenHasRow, AckedHasRow
<1> QED BY <1>2, <1>3, <1>4, <1>5 DEF TablesInv

\* Nothing changes of the events that are there.
LEMMA PublishInv ==
    ASSUME TablesInv, NEW shape \in Shapes, Publish(shape)
    PROVE  TablesInv'
<1>1. PICK i \in Ids \ Emitted :
         /\ event' = [event EXCEPT ![i] = shape]
         /\ waiting' = IF shape.type \in Persistable THEN Append(waiting, i) ELSE waiting
    BY DEF Publish
<1>2. UNCHANGED <<tries, persist, tables, acked, dead>>
    BY DEF Publish
<1>3. /\ event' \in [Ids -> Shapes \cup {Empty}]
      /\ event'[i] = shape
      /\ \A j \in Ids \ {i} : event'[j] = event[j]
    BY <1>1 DEF TablesInv, TablesTypeOK
<1>4. Emitted' = Emitted \cup {i} /\ i \notin Emitted
    BY <1>3, ShapesAssumption DEF Emitted
<1>5. \A j \in Emitted : j \in Ids /\ event'[j] = event[j]
    BY <1>3, <1>4 DEF Emitted
<1>6. Append(waiting, i) \in Seq(Ids) /\ Range(Append(waiting, i)) = Range(waiting) \cup {i}
    BY RangeOfAppend DEF TablesInv, WorkTypeOK
<1>7. waiting' \in Seq(Ids) /\ Range(waiting') \subseteq Emitted'
    BY <1>1, <1>4, <1>6 DEF TablesInv, WorkTypeOK
<1>8. TablesTypeOK'
    BY <1>2, <1>3, <1>4, <1>7 DEF TablesInv, TablesTypeOK
<1>9. WorkTypeOK'
    BY <1>2, <1>4, <1>7 DEF TablesInv, WorkTypeOK
<1>10. ASSUME NEW kind \in TableKinds, NEW j \in Emitted
       PROVE  /\ RowKey(kind, j)' = RowKey(kind, j)
              /\ Writable(kind, event[j])' = Writable(kind, event[j])
              /\ (j \in OfKind(kind) => j \in OfKind(kind)')
              /\ HasRow(tables, kind, j)' = HasRow(tables, kind, j)
    <2>1. RowKey(kind, j)' = RowKey(kind, j)
        BY <1>5 DEF RowKey
    <2>2. Writable(kind, event[j])' = Writable(kind, event[j])
        BY <1>5
    <2>3. j \in OfKind(kind) => j \in OfKind(kind)'
        BY <1>4, <1>5 DEF OfKind
    <2>4. HasRow(tables, kind, j)' = HasRow(tables, kind, j)
        BY <1>2, <2>1, <2>2 DEF HasRow
    <2> QED BY <2>1, <2>2, <2>3, <2>4
<1>11. (tables \in GoodRows)'
    BY <1>2, <1>4, <1>10 DEF TablesInv, GoodRows, Rows, KeyTrue
<1>12. WrittenHasRow'
    BY <1>2, <1>10 DEF TablesInv, WrittenHasRow, OfKind
<1>13. AckedHasRow'
    <2>1. acked \subseteq Emitted
        BY DEF TablesInv, TablesTypeOK
    <2> QED BY <1>2, <1>5, <1>10, <2>1 DEF TablesInv, AckedHasRow
<1> QED BY <1>8, <1>9, <1>11, <1>12, <1>13 DEF TablesInv

\* The kinds left to write are kinds of rows: the route has no other that an event needs.
LEMMA KindsAreRouted ==
    ASSUME NEW batch
    PROVE  /\ Among(RouteOrder, Needed(batch)) \in Seq(TableKinds)
<1> DEFINE Routed == {"audit", "market", "orderbook", "order", "fill", "position",
                      "allocation", "decision", "outbox"}
           left == Among(RouteOrder, Needed(batch))
<1>1. RouteOrder \in Seq(Routed)
    BY DEF RouteOrder
<1>2. Range(RouteOrder) \subseteq Routed
    BY <1>1, ElementOfSeq, LenProperties DEF Range
<1>3. left \in Seq(Routed) /\ Range(left) = Range(RouteOrder) \cap Needed(batch)
    BY <1>1, AmongIs
<1>4. Needed(batch) \subseteq {"audit", "outbox", "order", "fill", "position", "account"}
    BY DEF Needed, RecordsOf
<1>5. Range(left) \subseteq TableKinds
    BY <1>2, <1>3, <1>4 DEF TableKinds
<1> HIDE DEF left
<1> QED BY <1>3, <1>5, SeqOfRange, SeqMonotonic DEF left

LEMMA TakeInv ==
    ASSUME TablesInv, NEW n \in 1 .. MaxBatch, Take(n)
    PROVE  TablesInv'
<1> DEFINE batch == SubSeq(waiting, 1, n)
           rest == SubSeq(waiting, n + 1, Len(waiting))
           left == Among(RouteOrder, Needed(batch))
<1>1. /\ UNCHANGED <<event, tries, tables, acked, dead>>
      /\ persist' = [NoBatch EXCEPT !.batch = batch, !.left = left]
      /\ waiting' = rest
      /\ n \in 1 .. Len(waiting)
    BY DEF Take
<1>2. waiting \in Seq(Ids) /\ Len(waiting) \in Nat /\ n \in Nat /\ Range(waiting) \subseteq Emitted
    BY <1>1, ShapesAssumption, LenProperties DEF TablesInv, WorkTypeOK
<1>3. /\ batch \in Seq(Ids) /\ Range(batch) \subseteq Range(waiting)
      /\ rest \in Seq(Ids) /\ Range(rest) \subseteq Range(waiting)
    <2>1. /\ 1 \in 1 .. Len(waiting) + 1 /\ n \in 0 .. Len(waiting)
          /\ n + 1 \in 1 .. Len(waiting) + 1 /\ Len(waiting) \in 0 .. Len(waiting)
        BY <1>1, <1>2
    <2> QED BY <1>2, <2>1, PartOfSeq
<1>4. left \in Seq(TableKinds)
    BY KindsAreRouted
<1> HIDE DEF batch, rest, left
<1>5. /\ persist' = [batch |-> batch, left |-> left, written |-> {}, failed |-> {}]
      /\ Emitted' = Emitted
    BY <1>1 DEF NoBatch, Emitted
<1>6. TablesTypeOK' /\ WorkTypeOK'
    BY <1>1, <1>2, <1>3, <1>4, <1>5 DEF TablesInv, TablesTypeOK, WorkTypeOK
<1>7. (tables \in GoodRows)'
    BY <1>1, <1>5 DEF TablesInv, GoodRows, Rows, KeyTrue, RowKey
<1>8. WrittenHasRow'
    BY <1>5 DEF WrittenHasRow
<1>9. AckedHasRow'
    BY <1>1 DEF TablesInv, AckedHasRow, HasRow, RowKey
<1> QED BY <1>6, <1>7, <1>8, <1>9 DEF TablesInv

\* Rows are written of events that have such a record, and what counts as written is.
LEMMA WrittenInv ==
    ASSUME TablesInv, persist.left # <<>>, UNCHANGED <<event, waiting, tries, acked, dead>>,
           NEW kind, kind = Head(persist.left), NEW items \in Seq(OfKind(kind)),
           NEW ids \in SUBSET Range(items), NEW failed \in SUBSET Ids,
           tables' = Saved(kind, items), Wrote(kind, ids, failed)
    PROVE  TablesInv'
<1>1. /\ persist \in [batch : Seq(Ids), left : Seq(TableKinds),
                      written : SUBSET (Ids \X TableKinds), failed : SUBSET Ids]
      /\ event \in [Ids -> Shapes \cup {Empty}] /\ tables \in GoodRows
    BY DEF TablesInv, TablesTypeOK, WorkTypeOK
<1>2. kind \in TableKinds /\ Tail(persist.left) \in Seq(TableKinds)
    BY <1>1, HeadTailProperties
<1>3. Range(items) \subseteq OfKind(kind)
    BY LenProperties, ElementOfSeq DEF Range
<1>4. ids \subseteq OfKind(kind) /\ OfKind(kind) \subseteq Ids
    BY <1>3 DEF OfKind, Emitted
<1>5. /\ tables' \in GoodRows /\ Kept(tables, tables')
      /\ \A i \in ids : HasRow(tables', kind, i)
    BY <1>1, <1>2, SavedIs
<1>6. /\ persist'.batch = persist.batch
      /\ persist'.written = persist.written \cup {<<i, kind>> : i \in ids}
      /\ persist' \in [batch : Seq(Ids), left : Seq(TableKinds),
                       written : SUBSET (Ids \X TableKinds), failed : SUBSET Ids]
    <2>1. persist' = [persist EXCEPT !.left = Tail(@),
                                     !.written = @ \cup {<<i, kind>> : i \in ids},
                                     !.failed = @ \cup failed]
        BY DEF Wrote
    <2>2. {<<i, kind>> : i \in ids} \subseteq Ids \X TableKinds
        BY <1>2, <1>4
    <2> DEFINE pairs == {<<i, kind>> : i \in ids}
    <2> HIDE DEF pairs
    <2>3. persist' = [persist EXCEPT !.left = Tail(@), !.written = @ \cup pairs,
                                     !.failed = @ \cup failed]
        BY <2>1 DEF pairs
    <2>4. pairs \subseteq Ids \X TableKinds
        BY <2>2 DEF pairs
    <2>5. /\ persist.left \in Seq(TableKinds) /\ persist.written \cup pairs \in SUBSET (Ids \X TableKinds)
          /\ persist.failed \cup failed \in SUBSET Ids
        BY <1>1, <2>4
    <2>6. /\ persist'.batch = persist.batch /\ persist'.written = persist.written \cup pairs
          /\ persist' \in [batch : Seq(Ids), left : Seq(TableKinds),
                           written : SUBSET (Ids \X TableKinds), failed : SUBSET Ids]
        BY <1>1, <1>2, <2>3, <2>5
    <2> QED BY <2>6 DEF pairs
<1>7. Emitted' = Emitted /\ \A k \in TableKinds : OfKind(k)' = OfKind(k)
    BY DEF Emitted, OfKind
<1>8. \A k \in TableKinds, i \in Ids : RowKey(k, i)' = RowKey(k, i)
    BY DEF RowKey
<1>9. (tables \in GoodRows)'
    BY <1>5, <1>7, <1>8 DEF GoodRows, Rows, KeyTrue, Emitted
<1>10. TablesTypeOK' /\ WorkTypeOK'
    BY <1>5, <1>6, <1>7 DEF TablesInv, TablesTypeOK, WorkTypeOK, GoodRows, Rows
<1>11. ASSUME NEW k \in TableKinds, NEW i \in OfKind(k), HasRow(tables, k, i)
       PROVE  HasRow(tables, k, i)'
    <2>1. Writable(k, event[i]) => RowKey(k, i) \in Keys
        BY <1>1, RowKeyIs
    <2>2. i \in Ids
        BY DEF OfKind, Emitted
    <2> QED BY <1>5, <1>8, <1>11, <2>1, <2>2 DEF HasRow, Kept
<1>12. ASSUME NEW i \in ids PROVE HasRow(tables, kind, i)'
    BY <1>2, <1>4, <1>5, <1>8 DEF HasRow
<1>13. WrittenHasRow'
    <2> SUFFICES ASSUME NEW i \in Ids, NEW k \in TableKinds, <<i, k>> \in persist'.written
                 PROVE  i \in OfKind(k)' /\ HasRow(tables, k, i)'
        BY DEF WrittenHasRow
    <2>1. CASE <<i, k>> \in persist.written
        BY <1>7, <1>11, <2>1 DEF TablesInv, WrittenHasRow
    <2>2. CASE k = kind /\ i \in ids
        BY <1>2, <1>4, <1>7, <1>12, <2>2
    <2> QED BY <1>6, <2>1, <2>2
<1>14. AckedHasRow'
    <2> SUFFICES ASSUME NEW i \in acked, NEW k \in RecordsOf(event[i])
                 PROVE  k \in TableKinds /\ HasRow(tables, k, i)'
        BY DEF AckedHasRow
    <2>1. k \in TableKinds /\ HasRow(tables, k, i) /\ i \in OfKind(k)
        BY DEF TablesInv, TablesTypeOK, AckedHasRow, OfKind
    <2> QED BY <1>11, <2>1
<1> QED BY <1>9, <1>10, <1>13, <1>14 DEF TablesInv

\* What the batch holds of a kind.
LEMMA ItemsAre ==
    ASSUME TablesInv, NEW kind \in TableKinds, NEW S
    PROVE  /\ ItemsOf(kind) \in Seq(OfKind(kind))
           /\ Among(ItemsOf(kind), S) \in Seq(OfKind(kind))
           /\ Range(Among(ItemsOf(kind), S)) = Range(ItemsOf(kind)) \cap S
<1>1. persist.batch \in Seq(Ids)
    BY DEF TablesInv, WorkTypeOK
<1>2. ItemsOf(kind) = Among(persist.batch, OfKind(kind))
    BY DEF ItemsOf, OfKind
<1>3. ItemsOf(kind) \in Seq(Ids) /\ Range(ItemsOf(kind)) \subseteq OfKind(kind)
    BY <1>1, <1>2, AmongIs
<1>4. ItemsOf(kind) \in Seq(OfKind(kind))
    BY <1>3, SeqOfRange, SeqMonotonic
<1> QED BY <1>4, AmongIs

LEMMA TogetherInv ==
    ASSUME TablesInv, WriteTogether
    PROVE  TablesInv'
<1> DEFINE kind == Head(persist.left)
<1>1. kind \in TableKinds /\ persist.left # <<>>
    BY HeadTailProperties DEF TablesInv, WorkTypeOK, WriteTogether
<1>2. ItemsOf(kind) \in Seq(OfKind(kind))
    BY <1>1, ItemsAre
<1>3. /\ tables' = Saved(kind, ItemsOf(kind)) /\ Wrote(kind, Range(ItemsOf(kind)), {})
      /\ UNCHANGED <<event, waiting, tries, acked, dead>>
    BY DEF WriteTogether
<1> QED BY <1>1, <1>2, <1>3, WrittenInv

LEMMA SinglyInv ==
    ASSUME TablesInv, NEW committed \in BOOLEAN,
           NEW refused \in SUBSET Range(persist.batch),
           NEW unanswered \in SUBSET Range(persist.batch),
           WriteSingly(committed, refused, unanswered)
    PROVE  TablesInv'
<1> DEFINE kind == Head(persist.left)
           items == ItemsOf(kind)
           failed == refused \cup unanswered
           stored == Among(items, Ids \ refused)
           wrote == IF committed THEN items \o stored ELSE stored
<1>1. kind \in TableKinds /\ persist.left # <<>>
    BY HeadTailProperties DEF TablesInv, WorkTypeOK, WriteSingly
<1>2. /\ items \in Seq(OfKind(kind)) /\ stored \in Seq(OfKind(kind))
      /\ Range(stored) = Range(items) \cap (Ids \ refused)
    BY <1>1, ItemsAre
<1>3. tables' = Saved(kind, wrote) /\ Wrote(kind, Range(items) \ failed, failed)
      /\ UNCHANGED <<event, waiting, tries, acked, dead>>
    BY DEF WriteSingly
<1>4. failed \subseteq Ids
    BY DEF TablesInv, WorkTypeOK, Emitted
<1>5. Range(items) \subseteq Ids
    BY <1>2, LenProperties, ElementOfSeq DEF Range, OfKind, Emitted
<1> HIDE DEF items, stored
<1>6. wrote \in Seq(OfKind(kind)) /\ Range(stored) \subseteq Range(wrote)
    <2>1. CASE committed
        <3>1. items \o stored \in Seq(OfKind(kind)) /\ Range(stored) \subseteq Range(items \o stored)
            BY <1>2, ConcatProperties, RangeConcatenation
        <3> QED BY <2>1, <3>1
    <2>2. CASE ~committed
        BY <1>2, <2>2
    <2> QED BY <2>1, <2>2
<1>7. Range(items) \ failed \subseteq Range(wrote)
    BY <1>2, <1>5, <1>6
<1> HIDE DEF kind, failed, wrote
<1> QED BY <1>1, <1>3, <1>4, <1>6, <1>7, WrittenInv DEF kind

LEMMA FinalizeInv ==
    ASSUME TablesInv, Finalize
    PROVE  TablesInv'
<1> DEFINE again == {i \in Range(persist.batch) : ~AllWritten(i) /\ tries[i] < MaxRetries}
           retried == Among(persist.batch, again)
           ended == {i \in Range(persist.batch) : AllWritten(i)}
<1>1. /\ persist.batch \in Seq(Ids) /\ waiting \in Seq(Ids)
      /\ Range(persist.batch) \subseteq Emitted /\ Range(waiting) \subseteq Emitted
      /\ Emitted \subseteq Ids
    BY DEF TablesInv, WorkTypeOK, Emitted
<1>2. /\ acked' = acked \cup ended /\ waiting' = waiting \o retried
      /\ tries' = [i \in Ids |-> IF i \in Range(retried) THEN tries[i] + 1 ELSE tries[i]]
      /\ dead' \subseteq dead \cup Range(persist.batch)
      /\ persist' = NoBatch /\ UNCHANGED <<event, tables>>
    BY DEF Finalize
<1>3. retried \in Seq(Ids) /\ Range(retried) = Range(persist.batch) \cap again
    BY <1>1, AmongIs
<1>4. ASSUME NEW i \in ended, NEW kind \in RecordsOf(event[i])
      PROVE  kind \in TableKinds /\ HasRow(tables, kind, i)
    <2>1. <<i, kind>> \in persist.written
        BY DEF AllWritten
    <2> QED BY <2>1 DEF TablesInv, WorkTypeOK, WrittenHasRow
<1>5. \A i \in Range(retried) : i \in Ids /\ tries[i] < MaxRetries
    BY <1>1, <1>3
<1>6. ended \subseteq Emitted
    BY <1>1
<1> HIDE DEF retried, again, ended
<1>7. waiting' \in Seq(Ids) /\ Range(waiting') = Range(waiting) \cup Range(retried)
    BY <1>1, <1>2, <1>3, ConcatProperties, RangeConcatenation
<1>8. tries' \in [Ids -> 0 .. MaxRetries]
    BY <1>2, <1>5, ShapesAssumption DEF TablesInv, TablesTypeOK
<1>9. Emitted' = Emitted /\ persist' = [batch |-> <<>>, left |-> <<>>, written |-> {}, failed |-> {}]
    BY <1>2 DEF Emitted, NoBatch
<1>10. TablesTypeOK'
    BY <1>1, <1>2, <1>3, <1>6, <1>7, <1>8, <1>9 DEF TablesInv, TablesTypeOK
<1>11. WorkTypeOK'
    <2>1. Range(<<>>) = {} /\ \A S : <<>> \in Seq(S)
        BY DEF Range
    <2> QED BY <1>1, <1>3, <1>7, <1>9, <2>1 DEF WorkTypeOK
<1>12. (tables \in GoodRows)'
    BY <1>2, <1>9 DEF TablesInv, GoodRows, Rows, KeyTrue, RowKey
<1>13. WrittenHasRow'
    BY <1>9 DEF WrittenHasRow
<1>14. AckedHasRow'
    <2>1. \A i \in acked \cup ended : \A kind \in RecordsOf(event[i]) :
             kind \in TableKinds /\ HasRow(tables, kind, i)
        BY <1>4 DEF TablesInv, AckedHasRow
    <2> QED BY <1>2, <2>1 DEF AckedHasRow, HasRow, RowKey
<1> QED BY <1>10, <1>11, <1>12, <1>13, <1>14 DEF TablesInv

LEMMA TablesStep == TablesInv /\ [TablesNext]_tables_vars => TablesInv'
<1> SUFFICES ASSUME TablesInv, [TablesNext]_tables_vars PROVE TablesInv'
    OBVIOUS
<1>1. CASE UNCHANGED tables_vars
    BY <1>1 DEF tables_vars, TablesInv, TablesTypeOK, WorkTypeOK, GoodRows, Rows, KeyTrue,
                RowKey, Emitted, WrittenHasRow, AckedHasRow, HasRow, OfKind
<1>2. CASE TablesNext
    BY <1>2, PublishInv, TakeInv, TogetherInv, SinglyInv, FinalizeInv DEF TablesNext
<1> QED BY <1>1, <1>2

THEOREM TablesInvariance == TablesSpec => []TablesInv
<1>1. TablesInv /\ [TablesNext]_tables_vars => TablesInv'
    BY TablesStep
<1> QED BY <1>1, TablesInitInv, PTL DEF TablesSpec

\* Every variable of the sink and its tables keeps its type.
THEOREM TablesTypeCorrect == TablesSpec => []TablesTypeOK
<1>1. TablesInv => TablesTypeOK
    BY DEF TablesInv
<1> QED BY <1>1, TablesInvariance, PTL

\* An event that is acknowledged has left each of its records in its table, for any events,
\* batches and retries, whatever statement failed, before its commit or after it.
\* (worker.py _write_kind, _finalize_event_outcomes)
THEOREM AckedStaysWritten == TablesSpec => []AckedIsWritten
<1>1. TablesInv => AckedIsWritten
    <2> SUFFICES ASSUME TablesInv, NEW i \in acked, NEW kind \in RecordsOf(event[i]),
                        Writable(kind, event[i])
                 PROVE  /\ tables[kind][RowKey(kind, i)] # Empty
                        /\ RowKey(kind, tables[kind][RowKey(kind, i)]) = RowKey(kind, i)
        BY DEF AckedIsWritten
    <2>1. kind \in TableKinds /\ HasRow(tables, kind, i) /\ i \in OfKind(kind)
        BY DEF TablesInv, TablesTypeOK, AckedHasRow, OfKind
    <2>2. RowKey(kind, i) \in Keys
        BY <2>1, RowKeyIs DEF TablesInv, TablesTypeOK
    <2> QED BY <2>1, <2>2 DEF TablesInv, GoodRows, KeyTrue, HasRow
<1> QED BY <1>1, TablesInvariance, PTL

=============================================================================
