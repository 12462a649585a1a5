------------------------ MODULE MarketRegistryProofs ------------------------
(***************************************************************************)
(* Type correctness of the registry of markets, the truth of its index of  *)
(* events, and that no market the account is exposed in leaves it but in   *)
(* the two known ways.                                                     *)
(***************************************************************************)
EXTENDS MarketRegistry, TLAPS

(* The index names a listed market, of that event, that knows its event:       *)
(* removals take the market out of both, and whoever loses its event in an     *)
(* update gives it up or back.                                                 *)
OwnersAreListed ==
    \A e \in Events :
        owner[e] # NoMarket =>
            owner[e] \in Listed /\ EventOf[owner[e]] = e /\ listed[owner[e]].event

(* Whom a round still waits for has failed less often than puts a market aside. *)
WaitingIsAskable ==
    round.phase \in {"known", "missing"} => \A m \in round.waiting : Askable(m)

Inv == TypeOK /\ OwnersAreListed /\ WaitingIsAskable

RegistryOK ==
    /\ listed \in [Markets -> Records \cup {Absent}]
    /\ owner \in [Events -> Markets \cup {NoMarket}]
    /\ OwnersAreListed

Rounds == [phase : {"idle", "known", "missing", "planning", "pruning"},
           scope : SUBSET Markets,
           asked : [Markets -> Records \cup {Absent}],
           answers : [Markets -> Records \cup {Absent}],
           waiting : SUBSET Markets, seen : SUBSET Markets]

(* No count grows. *)
FailuresFall == failures' \in [Markets -> 0..Threshold] /\ \A m \in Markets : failures'[m] <= failures[m]

----------------------------------------------------------------------------
(* Records *)

(* A record is not the mark of a market that is not listed. *)
LEMMA AbsentIsNoRecord == Absent \notin Records
  BY DEF Absent, Records, Statuses

(* What Gamma says of a market is a record. *)
LEMMA FoundIsRecord == \A status \in Statuses : Found(status) \in Records
  BY DEF Found, Records

(* What Gamma lists, and a step may ask for, is a status. *)
LEMMA ListingsAreStatuses == \A m : Listings(m) \subseteq Statuses
  BY DEF Listings, Statuses

(* What is kept of a filtered market for its exposure is a record. *)
LEMMA RetainedIsRecord == \A m : Retained(m) \in Records
  BY FoundIsRecord DEF Retained, Statuses

(* An answer merged into the copy of a round is a record, whatever the copy. *)
LEMMA MergedIsRecord ==
    \A record \in Records \cup {Absent}, status \in Statuses : Merged(record, status) \in Records
  <1> TAKE record \in Records \cup {Absent}, status \in Statuses
  <1>1. CASE record \in Records
    BY <1>1 DEF Records, Merged
  <1>2. CASE record = Absent
    BY <1>2 DEF Records, Absent, Merged
  <1> QED BY <1>1, <1>2

(* So is a copy with another status. *)
LEMMA RestatedIsRecord ==
    \A record \in Records \cup {Absent}, status \in Statuses :
        [record EXCEPT !.status = status] \in Records
  <1> TAKE record \in Records \cup {Absent}, status \in Statuses
  <1>1. CASE record \in Records
    BY <1>1 DEF Records
  <1>2. CASE record = Absent
    BY <1>2 DEF Records, Absent
  <1> QED BY <1>1, <1>2

(* An empty round is a round. *)
LEMMA IdleIsRound == Idle \in Rounds
  BY DEF Idle, Rounds

----------------------------------------------------------------------------
(* The two ways the registry is written *)

(* upsert: whoever is put in is listed as it was put in, the others as they    *)
(* were, and the index stays true.                                             *)
LEMMA UpsertKeeps ==
    ASSUME RegistryOK, NEW new \in SUBSET Markets, NEW records,
           \A m \in new : records[m] \in Records,
           Upsert(new, records)
    PROVE  /\ RegistryOK'
           /\ \A m \in Markets : listed'[m] = IF m \in new THEN records[m] ELSE listed[m]
  <1>1. /\ listed' \in [Markets -> Records \cup {Absent}]
        /\ \A m \in Markets : listed'[m] = IF m \in new THEN records[m] ELSE listed[m]
    BY DEF RegistryOK, Upsert
  <1>2. owner' \in [Events -> Markets \cup {NoMarket}]
    BY DEF Upsert
  <1>3. ASSUME NEW e \in Events, owner'[e] # NoMarket
        PROVE  owner'[e] \in Listed' /\ EventOf[owner'[e]] = e /\ listed'[owner'[e]].event
    <2> DEFINE claimants == {m \in new : EventOf[m] = e /\ records[m].event}
               stays == owner[e] # NoMarket /\ (owner[e] \in new => owner[e] \in claimants)
    <2>1. IF stays THEN owner'[e] = owner[e]
          ELSE IF claimants = {} THEN owner'[e] = NoMarket
          ELSE owner'[e] \in claimants
      BY DEF Upsert
    <2>2. CASE owner'[e] \in claimants
      <3>1. owner'[e] \in new /\ listed'[owner'[e]] = records[owner'[e]]
        BY <2>2, <1>1
      <3>2. listed'[owner'[e]] # Absent
        BY <3>1, AbsentIsNoRecord
      <3> QED BY <2>2, <3>1, <3>2 DEF Listed
    <2>3. CASE stays /\ owner[e] \notin new /\ owner'[e] = owner[e]
      <3>1. owner[e] \in Listed /\ EventOf[owner[e]] = e /\ listed[owner[e]].event
        BY <2>3 DEF RegistryOK, OwnersAreListed
      <3>2. listed'[owner[e]] = listed[owner[e]]
        BY <2>3, <3>1, <1>1 DEF Listed
      <3> QED BY <2>3, <3>1, <3>2 DEF Listed
    <2> QED BY <1>3, <2>1, <2>2, <2>3
  <1> QED BY <1>1, <1>2, <1>3 DEF RegistryOK, OwnersAreListed

Leaving(gone) ==
    /\ listed' = [m \in Markets |-> IF m \in gone THEN Absent ELSE listed[m]]
    /\ owner' = OwnersAfter(gone \cap Listed)

(* Whoever is taken out is taken out of the index too. *)
LEMMA LeavingKeeps ==
    ASSUME RegistryOK, NEW gone, Leaving(gone)
    PROVE  /\ RegistryOK'
           /\ \A m \in Markets : listed'[m] = IF m \in gone THEN Absent ELSE listed[m]
  <1>1. /\ listed' \in [Markets -> Records \cup {Absent}]
        /\ \A m \in Markets : listed'[m] = IF m \in gone THEN Absent ELSE listed[m]
    BY DEF RegistryOK, Leaving
  <1>2. owner' \in [Events -> Markets \cup {NoMarket}]
    BY DEF RegistryOK, Leaving, OwnersAfter
  <1>3. ASSUME NEW e \in Events, owner'[e] # NoMarket
        PROVE  owner'[e] \in Listed' /\ EventOf[owner'[e]] = e /\ listed'[owner'[e]].event
    <2>1. owner'[e] = owner[e] /\ owner[e] \notin gone \cap Listed
      BY <1>3 DEF Leaving, OwnersAfter
    <2>2. owner[e] \in Listed /\ EventOf[owner[e]] = e /\ listed[owner[e]].event
      BY <1>3, <2>1 DEF RegistryOK, OwnersAreListed
    <2>3. listed'[owner[e]] = listed[owner[e]]
      BY <1>1, <2>1, <2>2 DEF Listed
    <2> QED BY <2>1, <2>2, <2>3 DEF Listed
  <1> QED BY <1>1, <1>2, <1>3 DEF RegistryOK, OwnersAreListed

(* remove_market: the counts of the removed are reset. *)
LEMMA RemoveKeeps ==
    ASSUME RegistryOK, failures \in [Markets -> 0..Threshold], NEW gone, Remove(gone)
    PROVE  /\ RegistryOK'
           /\ FailuresFall
           /\ \A m \in Markets : listed'[m] = IF m \in gone THEN Absent ELSE listed[m]
           /\ \A m \in gone \cap Listed : failures'[m] = 0
  <1>1. Leaving(gone)
    BY DEF Remove, Leaving
  <1>2. FailuresFall /\ \A m \in gone \cap Listed : failures'[m] = 0
    BY LimitsAssumption DEF Remove, FailuresFall, Listed
  <1> QED BY <1>1, <1>2, LeavingKeeps

(* A registry that is left alone. *)
LEMMA SameRegistry ==
    ASSUME RegistryOK, UNCHANGED registry_vars
    PROVE  RegistryOK' /\ \A m \in Markets : listed'[m] = listed[m]
  BY DEF RegistryOK, OwnersAreListed, Listed, registry_vars

LEMMA SameFailures ==
    ASSUME failures \in [Markets -> 0..Threshold], UNCHANGED failures
    PROVE  FailuresFall
  BY LimitsAssumption DEF FailuresFall

(* A round that stands still waits for whom it may. *)
LEMMA WaitingStays ==
    ASSUME Inv, FailuresFall, UNCHANGED round
    PROVE  WaitingIsAskable'
  <1>1. \A m \in round.waiting : m \in Markets
    BY DEF Inv, TypeOK
  <1> QED BY <1>1, LimitsAssumption DEF Inv, TypeOK, FailuresFall, WaitingIsAskable, Askable

(* The invariant put together, and taken apart. *)
LEMMA TogetherInv ==
    ASSUME RegistryOK', copies' \in [Markets -> Records \cup {Absent}], deaf' \subseteq Markets,
           failures' \in [Markets -> 0..Threshold], round' \in Rounds,
           exposed' \subseteq Traded, over' \subseteq Markets, WaitingIsAskable'
    PROVE  Inv'
  BY DEF Inv, TypeOK, RegistryOK, Rounds

LEMMA InvParts ==
    ASSUME Inv
    PROVE  /\ RegistryOK
           /\ copies \in [Markets -> Records \cup {Absent}]
           /\ deaf \subseteq Markets
           /\ failures \in [Markets -> 0..Threshold]
           /\ round \in Rounds
           /\ exposed \subseteq Markets /\ exposed \subseteq Traded /\ over \subseteq Markets
  BY SubsetsAssumption DEF Inv, TypeOK, RegistryOK, Rounds

----------------------------------------------------------------------------
(* Whom a step may let go *)

LetGo ==
    \A m \in Listed \cap exposed :
        listed'[m] = Absent =>
            \/ round.phase = "pruning" /\ m \notin round.seen
            \/ /\ owner[EventOf[m]] = m /\ copies'[m] = Absent
               /\ \E s \in NamedLikeEvent \ Listed : EventOf[s] = EventOf[m]

NoneLetGo == \A m \in Listed \cap exposed : listed'[m] # Absent

LEMMA NoneIsKnown ==
    ASSUME NoneLetGo PROVE LetGo
  BY DEF NoneLetGo, LetGo

(* A market put in is listed. *)
LEMMA UpsertLetsNoneGo ==
    ASSUME RegistryOK, NEW new \in SUBSET Markets, NEW records,
           \A m \in new : records[m] \in Records,
           Upsert(new, records)
    PROVE  NoneLetGo
  <1>1. \A m \in Markets : listed'[m] = IF m \in new THEN records[m] ELSE listed[m]
    BY UpsertKeeps
  <1> QED BY <1>1, AbsentIsNoRecord DEF NoneLetGo, Listed

(* A removal that looks at the exposure lets none go that has any. *)
LEMMA RemoveLetsNoneGo ==
    ASSUME RegistryOK, failures \in [Markets -> 0..Threshold], NEW gone, Remove(gone),
           gone \cap exposed \cap Listed = {}
    PROVE  NoneLetGo
  <1>1. \A m \in Markets : listed'[m] = IF m \in gone THEN Absent ELSE listed[m]
    BY RemoveKeeps
  <1> QED BY <1>1 DEF NoneLetGo, Listed

LEMMA SameLetsNoneGo ==
    ASSUME RegistryOK, UNCHANGED registry_vars
    PROVE  NoneLetGo
  BY SameRegistry DEF NoneLetGo, Listed

----------------------------------------------------------------------------
(* The stream *)

LEMMA TrackType ==
    ASSUME NEW new \in SUBSET Markets, NEW records,
           copies \in [Markets -> Records \cup {Absent}],
           \A m \in new : records[m] \in Records \cup {Absent},
           Track(new, records)
    PROVE  copies' \in [Markets -> Records \cup {Absent}]
  BY DEF Track

LEMMA UntrackType ==
    ASSUME NEW gone,
           copies \in [Markets -> Records \cup {Absent}], deaf \subseteq Markets,
           Untrack(gone)
    PROVE  copies' \in [Markets -> Records \cup {Absent}] /\ deaf' \subseteq Markets
  BY DEF Untrack

LEMMA ListedRecord ==
    ASSUME RegistryOK, NEW m \in Listed
    PROVE  m \in Markets /\ listed[m] \in Records
  BY DEF RegistryOK, Listed

LEMMA MessageInv ==
    ASSUME Inv, NEW m \in Markets, Message(m)
    PROVE  Inv' /\ LetGo
  <1>1. RegistryOK' /\ NoneLetGo
    BY InvParts, SameRegistry, SameLetsNoneGo DEF Message
  <1>2. copies' \in [Markets -> Records \cup {Absent}]
    BY InvParts, TrackType, ListedRecord DEF Message
  <1>3. FailuresFall /\ UNCHANGED <<deaf, failures, round, exposed, over>>
    BY InvParts, SameFailures DEF Message, world_vars
  <1>4. WaitingIsAskable'
    BY <1>3, WaitingStays
  <1> QED BY <1>1, <1>2, <1>3, <1>4, InvParts, TogetherInv, NoneIsKnown

LEMMA MarketResolvedInv ==
    ASSUME Inv, NEW m \in Markets, MarketResolved(m)
    PROVE  Inv' /\ LetGo
  <1> DEFINE record == [listed[m] EXCEPT !.status = "resolved"]
  <1>1. UNCHANGED <<round, exposed, over>> /\ deaf' \subseteq Markets
    BY InvParts DEF MarketResolved, world_vars
  <1>2. CASE m \notin Listed
    <2>1. RegistryOK' /\ NoneLetGo
      BY <1>2, InvParts, SameRegistry, SameLetsNoneGo DEF MarketResolved
    <2>2. UNCHANGED <<copies, failures>>
      BY <1>2 DEF MarketResolved
    <2>3. FailuresFall
      BY <2>2, InvParts, SameFailures
    <2>4. WaitingIsAskable'
      BY <1>1, <2>3, WaitingStays
    <2> QED BY <1>1, <2>1, <2>2, <2>3, <2>4, InvParts, TogetherInv, NoneIsKnown
  <1>3. CASE m \in Listed
    <2>1. record \in Records
      BY <1>3, InvParts, ListedRecord, RestatedIsRecord DEF Statuses
    <2>2. copies' \in [Markets -> Records \cup {Absent}]
      BY <1>3, <2>1, InvParts, TrackType DEF MarketResolved
    <2>3. RegistryOK' /\ NoneLetGo /\ FailuresFall
      <3>1. CASE MayLeaveResolved(m)
        <4>1. Remove({m}) /\ m \notin exposed
          BY <1>3, <3>1 DEF MarketResolved, MayLeaveResolved
        <4> QED BY <4>1, InvParts, RemoveKeeps, RemoveLetsNoneGo
      <3>2. CASE ~MayLeaveResolved(m)
        <4>1. Upsert({m}, [n \in Markets |-> record]) /\ UNCHANGED failures
          BY <1>3, <3>2 DEF MarketResolved, Upsert1
        <4>2. \A n \in {m} : [x \in Markets |-> record][n] \in Records
          BY <2>1
        <4> HIDE DEF record
        <4> QED BY <4>1, <4>2, InvParts, UpsertKeeps, UpsertLetsNoneGo, SameFailures
      <3> QED BY <3>1, <3>2
    <2>4. WaitingIsAskable'
      BY <1>1, <2>3, WaitingStays
    <2> QED BY <1>1, <2>2, <2>3, <2>4, InvParts, TogetherInv, NoneIsKnown DEF FailuresFall
  <1> QED BY <1>2, <1>3

LEMMA NewMarketInv ==
    ASSUME Inv, NEW m \in Markets, NewMarket(m)
    PROVE  Inv' /\ LetGo
  <1>1. FailuresFall /\ UNCHANGED <<deaf, failures, round, exposed, over>>
    BY InvParts, SameFailures DEF NewMarket, world_vars
  <1>2. Resolved(m) \in Records
    BY InvParts DEF NewMarket, Resolved, RegistryOK
  <1>3. WaitingIsAskable'
    BY <1>1, WaitingStays
  <1>4. CASE Upsert1(m, Resolved(m)) /\ Track({m}, [n \in Markets |-> Resolved(m)])
    <2>1. \A n \in {m} : [x \in Markets |-> Resolved(m)][n] \in Records
      BY <1>2
    <2>2. RegistryOK' /\ NoneLetGo
      BY <1>4, <2>1, InvParts, UpsertKeeps, UpsertLetsNoneGo DEF Upsert1
    <2>3. copies' \in [Markets -> Records \cup {Absent}]
      BY <1>4, <2>1, InvParts, TrackType
    <2> QED BY <1>1, <1>3, <2>2, <2>3, InvParts, TogetherInv, NoneIsKnown
  <1>5. CASE /\ Track({m}, [n \in Markets |-> IF m \in Listed THEN listed[m] ELSE Resolved(m)])
             /\ UNCHANGED registry_vars
    <2> DEFINE record == IF m \in Listed THEN listed[m] ELSE Resolved(m)
    <2>1. RegistryOK' /\ NoneLetGo
      BY <1>5, InvParts, SameRegistry, SameLetsNoneGo
    <2>2. record \in Records
      BY <1>2, InvParts, ListedRecord
    <2>3. Track({m}, [n \in Markets |-> record])
      BY <1>5
    <2> HIDE DEF record
    <2>4. copies' \in [Markets -> Records \cup {Absent}]
      BY <2>2, <2>3, InvParts DEF Track
    <2> QED BY <1>1, <1>3, <2>1, <2>4, InvParts, TogetherInv, NoneIsKnown
  <1>6. \/ /\ Upsert1(m, Resolved(m))
           /\ Track({m}, [n \in Markets |-> Resolved(m)])
        \/ /\ Track({m}, [n \in Markets |-> IF m \in Listed THEN listed[m] ELSE Resolved(m)])
           /\ UNCHANGED registry_vars
    BY ZenonT(30) DEF NewMarket
  <1> QED BY <1>4, <1>5, <1>6

----------------------------------------------------------------------------
(* Discovery *)

(* Whom the lookup by slug finds is no market, the one that is asked about, or *)
(* the owner of its event, when the market is named like that.                 *)
LEMMA BySlugFinds ==
    ASSUME RegistryOK, NEW m \in Markets \ Listed
    PROVE  \/ BySlug(m) = NoMarket
           \/ /\ m \in NamedLikeEvent
              /\ BySlug(m) = owner[EventOf[m]]
              /\ BySlug(m) \in Listed /\ EventOf[BySlug(m)] = EventOf[m]
  <1>1. EventOf[m] \in Events
    BY EventsAssumption
  <1> QED BY <1>1 DEF BySlug, RegistryOK, OwnersAreListed

LEMMA IngestInv ==
    ASSUME Inv, NEW m \in Markets, NEW status \in {"eligible", "closed"}, Ingest(m, status)
    PROVE  Inv' /\ LetGo
  <1> DEFINE existing == IF m \in Listed THEN m ELSE BySlug(m)
             Leave == IF existing = NoMarket THEN UNCHANGED <<registry_vars, stream_vars, failures>>
                      ELSE Remove({existing}) /\ Untrack({existing})
             Keep(record) == /\ Upsert1(m, record)
                             /\ Track({m}, [n \in Markets |-> record])
                             /\ UNCHANGED <<deaf, failures>>
             prunable == m \notin exposed /\ Inactive(Found(status))
             elapsed == m \notin exposed /\ m \in over
  <1>1. UNCHANGED <<round, exposed, over>>
    BY DEF Ingest, world_vars
  <1>2. \/ m \notin exposed /\ Leave
        \/ Keep(Found(status))
        \/ existing \in exposed /\ Keep(Retained(existing))
        \/ existing \notin exposed /\ Leave
    BY DEF Ingest
  <1>3. ASSUME NEW record \in Records, Keep(record)
        PROVE  Inv' /\ LetGo
    <2>1. \A n \in {m} : [x \in Markets |-> record][n] \in Records
      OBVIOUS
    <2>2. RegistryOK' /\ NoneLetGo
      BY <1>3, <2>1, InvParts, UpsertKeeps, UpsertLetsNoneGo DEF Upsert1
    <2>3. copies' \in [Markets -> Records \cup {Absent}]
      BY <1>3, InvParts DEF Track
    <2>4. FailuresFall /\ UNCHANGED <<deaf, failures>>
      BY <1>3, InvParts, SameFailures
    <2>5. WaitingIsAskable'
      BY <1>1, <2>4, WaitingStays
    <2> QED BY <1>1, <2>2, <2>3, <2>4, <2>5, InvParts, TogetherInv, NoneIsKnown
  <1>4. ASSUME existing # NoMarket, Leave, m \notin exposed \/ existing \notin exposed
        PROVE  Inv' /\ LetGo
    <2>1. Remove({existing}) /\ Untrack({existing})
      BY <1>4
    <2>2. /\ RegistryOK' /\ FailuresFall
          /\ \A n \in Markets : listed'[n] = IF n = existing THEN Absent ELSE listed[n]
      BY <2>1, InvParts, RemoveKeeps
    <2>3. copies' \in [Markets -> Records \cup {Absent}] /\ deaf' \subseteq Markets
      BY <2>1, InvParts, UntrackType
    <2>4. WaitingIsAskable'
      BY <1>1, <2>2, WaitingStays
    <2>5. Inv'
      BY <1>1, <2>2, <2>3, <2>4, InvParts, TogetherInv DEF FailuresFall
    <2>6. LetGo
      <3> SUFFICES ASSUME NEW n \in Listed \cap exposed, listed'[n] = Absent
                   PROVE  /\ owner[EventOf[n]] = n /\ copies'[n] = Absent
                          /\ \E s \in NamedLikeEvent \ Listed : EventOf[s] = EventOf[n]
        BY DEF LetGo
      <3>1. n \in Markets /\ n = existing
        BY <2>2 DEF Listed
      <3>2. m \notin Listed
        BY <1>4, <3>1
      <3>3. /\ m \in NamedLikeEvent \ Listed
            /\ n = owner[EventOf[m]] /\ EventOf[n] = EventOf[m]
        BY <1>4, <3>1, <3>2, InvParts, BySlugFinds
      <3>4. copies'[n] = Absent
        BY <2>1, <3>1 DEF Untrack
      <3> QED BY <3>3, <3>4
    <2> QED BY <2>5, <2>6
  <1>5. ASSUME existing = NoMarket, Leave
        PROVE  Inv' /\ LetGo
    <2>1. UNCHANGED <<registry_vars, stream_vars, failures>>
      BY <1>5
    <2>2. RegistryOK' /\ NoneLetGo /\ FailuresFall
      BY <2>1, InvParts, SameRegistry, SameLetsNoneGo, SameFailures
    <2>3. WaitingIsAskable'
      BY <1>1, <2>2, WaitingStays
    <2> QED BY <1>1, <2>1, <2>2, <2>3, InvParts, TogetherInv, NoneIsKnown DEF stream_vars
  <1>6. Found(status) \in Records /\ Retained(existing) \in Records
    BY FoundIsRecord, RetainedIsRecord DEF Statuses
  <1> HIDE DEF existing, Leave, Keep
  <1> QED BY <1>2, <1>3, <1>4, <1>5, <1>6

LEMMA PruneStaleInv ==
    ASSUME Inv, PruneStale
    PROVE  Inv' /\ LetGo
  <1>1. UNCHANGED <<copies, deaf, round, exposed, over>>
    BY DEF PruneStale, stream_vars, world_vars
  <1>2. PICK elapsed \in SUBSET over :
            Remove({m \in Listed \ exposed : Inactive(listed[m]) \/ m \in elapsed})
    BY DEF PruneStale
  <1>3. RegistryOK' /\ FailuresFall /\ NoneLetGo
    BY <1>2, InvParts, RemoveKeeps, RemoveLetsNoneGo
  <1>4. WaitingIsAskable'
    BY <1>1, <1>3, WaitingStays
  <1> QED BY <1>1, <1>3, <1>4, InvParts, TogetherInv, NoneIsKnown DEF FailuresFall

----------------------------------------------------------------------------
(* The reconcile round *)

LEMMA BeginRoundInv ==
    ASSUME Inv, NEW scope \in SUBSET Markets, BeginRound(scope)
    PROVE  Inv' /\ LetGo
  <1> DEFINE wanted == Listed \cap (IF scope = {} THEN exposed ELSE scope)
             swept == {m \in wanted \ exposed :
                          failures[m] >= Threshold \/ listed[m].status = "quarantined"}
             active == {m \in wanted : m \in swept \/ Askable(m)}
  <1>1. /\ Remove(swept)
        /\ UNCHANGED <<copies, deaf, exposed, over>>
        /\ round' = [phase |-> "known", scope |-> scope,
                     asked |-> [m \in Markets |-> IF m \in active THEN listed[m] ELSE Absent],
                     answers |-> Idle.answers, waiting |-> active, seen |-> Listed]
    BY DEF BeginRound, stream_vars, world_vars
  <1>2. active \subseteq Listed /\ Listed \subseteq Markets /\ swept \cap exposed = {}
        /\ swept \subseteq Listed
    BY DEF Listed
  <1>3. /\ RegistryOK' /\ FailuresFall /\ NoneLetGo
        /\ \A m \in swept : failures'[m] = 0
    BY <1>1, <1>2, InvParts, RemoveKeeps, RemoveLetsNoneGo
  <1>4. \A m \in active : m \in Markets /\ (m \in swept \/ Askable(m))
    BY <1>2
  <1> HIDE DEF swept, active
  <1>5. round' \in Rounds
    BY <1>1, <1>2, InvParts DEF Rounds, RegistryOK, Idle
  <1>6. WaitingIsAskable'
    <2> SUFFICES ASSUME NEW m \in active PROVE failures'[m] < Threshold
      BY <1>1 DEF WaitingIsAskable, Askable
    <2>1. m \in Markets /\ failures[m] \in 0..Threshold /\ failures'[m] \in 0..Threshold
          /\ failures'[m] <= failures[m]
      BY <1>3, <1>4, InvParts DEF FailuresFall
    <2>2. CASE m \in swept
      BY <1>3, <2>2, LimitsAssumption
    <2>3. CASE Askable(m)
      BY <2>1, <2>3, LimitsAssumption DEF Askable
    <2> QED BY <1>4, <2>2, <2>3
  <1> QED BY <1>1, <1>3, <1>5, <1>6, InvParts, TogetherInv, NoneIsKnown DEF FailuresFall

(* A request that comes back leaves the round waiting for the others.          *)
LEMMA ReturnsKeeps ==
    ASSUME Inv, NEW m \in Markets, NEW answer \in Records \cup {Absent}, Returns(m, answer)
    PROVE  /\ round' \in Rounds
           /\ round'.phase = round.phase /\ round'.waiting = round.waiting \ {m}
           /\ UNCHANGED <<copies, deaf, exposed, over>>
           /\ failures[m] < Threshold
  <1>1. round \in Rounds /\ m \in round.waiting /\ round.phase \in {"known", "missing"}
    BY InvParts DEF Returns
  <1>2. round' = [round EXCEPT !.waiting = @ \ {m}, !.answers[m] = answer]
    BY DEF Returns
  <1>3. round' \in Rounds /\ round'.phase = round.phase /\ round'.waiting = round.waiting \ {m}
    BY <1>1, <1>2 DEF Rounds
  <1>4. failures[m] < Threshold
    BY <1>1 DEF Inv, WaitingIsAskable, Askable
  <1> QED BY <1>3, <1>4 DEF Returns, stream_vars, world_vars

LEMMA OthersStillAskable ==
    ASSUME Inv, NEW m \in Markets, round'.phase = round.phase, round'.waiting = round.waiting \ {m},
           \A n \in Markets \ {m} : failures'[n] = failures[n]
    PROVE  WaitingIsAskable'
  <1>1. \A n \in round.waiting : n \in Markets
    BY DEF Inv, TypeOK
  <1> QED BY <1>1 DEF Inv, WaitingIsAskable, Askable

(* An answer that resets the count. *)
LEMMA ClearedInv ==
    ASSUME Inv, NEW m \in Markets, NEW answer \in Records \cup {Absent},
           Returns(m, answer), Cleared(m)
    PROVE  Inv' /\ LetGo
  <1>1. RegistryOK' /\ NoneLetGo
    BY InvParts, SameRegistry, SameLetsNoneGo DEF Cleared
  <1>2. /\ failures' \in [Markets -> 0..Threshold]
        /\ \A n \in Markets \ {m} : failures'[n] = failures[n]
    BY InvParts, LimitsAssumption DEF Cleared
  <1>3. WaitingIsAskable'
    BY <1>2, ReturnsKeeps, OthersStillAskable
  <1> QED BY <1>1, <1>2, <1>3, ReturnsKeeps, InvParts, TogetherInv, NoneIsKnown

LEMMA AnswerListedInv ==
    ASSUME Inv, NEW m \in Markets, AnswerListed(m)
    PROVE  Inv' /\ LetGo
  <1>1. PICK status \in Listings(m) : Returns(m, Merged(round.asked[m], status))
    BY DEF AnswerListed
  <1>2. round.asked[m] \in Records \cup {Absent} /\ status \in Statuses
    BY InvParts, ListingsAreStatuses DEF Rounds
  <1>3. Merged(round.asked[m], status) \in Records \cup {Absent}
    BY <1>2, MergedIsRecord
  <1> QED BY <1>1, <1>3, ClearedInv DEF AnswerListed

LEMMA AnswerAliveInv ==
    ASSUME Inv, NEW m \in Markets, AnswerAlive(m)
    PROVE  Inv' /\ LetGo
  <1>1. PICK answer \in {round.asked[m], Absent} : Returns(m, answer)
    BY DEF AnswerAlive
  <1>2. answer \in Records \cup {Absent}
    BY InvParts DEF Rounds
  <1> QED BY <1>1, <1>2, ClearedInv DEF AnswerAlive

(* A market put aside had not been before: its count stays within the limit;   *)
(* what is held is paused, never removed.                                      *)
LEMMA PutAsideKeeps ==
    ASSUME Inv, NEW m \in Markets, failures[m] < Threshold, PutAside(m)
    PROVE  /\ RegistryOK' /\ NoneLetGo
           /\ failures' \in [Markets -> 0..Threshold]
           /\ \A n \in Markets \ {m} : failures'[n] = failures[n]
  <1>1. failures \in [Markets -> 0..Threshold] /\ failures[m] + 1 \in 0..Threshold /\ 0 \in 0..Threshold
    BY InvParts, LimitsAssumption
  <1>2. CASE m \in exposed
    <2> DEFINE record == [round.asked[m] EXCEPT !.status = "quarantined"]
    <2>1. Upsert({m}, [n \in Markets |-> record])
          /\ failures' = [failures EXCEPT ![m] = @ + 1]
      BY <1>2 DEF PutAside, Upsert1
    <2>2. record \in Records
      BY InvParts, RestatedIsRecord DEF Rounds, Statuses
    <2> HIDE DEF record
    <2>3. \A n \in {m} : [x \in Markets |-> record][n] \in Records
      BY <2>2
    <2>4. RegistryOK' /\ NoneLetGo
      BY <2>1, <2>3, InvParts, UpsertKeeps, UpsertLetsNoneGo
    <2> QED BY <1>1, <2>1, <2>4
  <1>3. CASE m \notin exposed
    <2>1. /\ listed' = [listed EXCEPT ![m] = Absent]
          /\ owner' = OwnersAfter({m} \cap Listed)
          /\ failures' = [failures EXCEPT ![m] = IF m \in Listed THEN 0 ELSE @ + 1]
      BY <1>3 DEF PutAside
    <2>2. listed' = [n \in Markets |-> IF n \in {m} THEN Absent ELSE listed[n]]
      BY <2>1, InvParts DEF RegistryOK
    <2>3. Leaving({m})
      BY <2>1, <2>2 DEF Leaving
    <2>4. RegistryOK'
      BY <2>3, InvParts, LeavingKeeps
    <2>5. NoneLetGo
      BY <1>3, <2>2 DEF NoneLetGo, Listed
    <2> QED BY <1>1, <2>1, <2>4, <2>5
  <1> QED BY <1>2, <1>3

LEMMA AnswerDeadInv ==
    ASSUME Inv, NEW m \in Markets, AnswerDead(m)
    PROVE  Inv' /\ LetGo
  <1>1. Returns(m, Absent) /\ Absent \in Records \cup {Absent}
    BY DEF AnswerDead
  <1>2. failures[m] < Threshold
    BY <1>1, ReturnsKeeps
  <1>3. /\ RegistryOK' /\ NoneLetGo
        /\ failures' \in [Markets -> 0..Threshold]
        /\ \A n \in Markets \ {m} : failures'[n] = failures[n]
    <2>1. CASE failures[m] + 1 >= Threshold
      BY <1>2, <2>1, PutAsideKeeps DEF AnswerDead
    <2>2. CASE ~(failures[m] + 1 >= Threshold)
      <3>1. failures' = [failures EXCEPT ![m] = @ + 1] /\ UNCHANGED registry_vars
        BY <2>2 DEF AnswerDead
      <3>2. RegistryOK' /\ NoneLetGo
        BY <3>1, InvParts, SameRegistry, SameLetsNoneGo
      <3> QED BY <1>2, <3>1, <3>2, InvParts, LimitsAssumption
    <2> QED BY <2>1, <2>2
  <1>4. WaitingIsAskable'
    BY <1>1, <1>3, ReturnsKeeps, OthersStillAskable
  <1> QED BY <1>1, <1>3, <1>4, ReturnsKeeps, InvParts, TogetherInv, NoneIsKnown

(* What a round brought is put in: it takes nothing out. *)
LEMMA ApplyKeeps ==
    ASSUME Inv, NEW phase, Apply(phase)
    PROVE  /\ RegistryOK' /\ NoneLetGo
           /\ copies' \in [Markets -> Records \cup {Absent}]
           /\ FailuresFall /\ UNCHANGED <<deaf, failures, exposed, over>>
  <1> DEFINE brought(m) == round.answers[m] # Absent
             madeUp(m) == round.asked[m] # Absent /\ ~round.asked[m].named
             new == {m \in Markets : brought(m) \/ madeUp(m)}
             records == [m \in Markets |-> IF brought(m) THEN round.answers[m] ELSE round.asked[m]]
  <1>1. Upsert(new, records) /\ Track(new, records) /\ UNCHANGED <<deaf, failures, exposed, over>>
    BY DEF Apply, world_vars
  <1>2. \A m \in Markets : round.answers[m] \in Records \cup {Absent}
                           /\ round.asked[m] \in Records \cup {Absent}
    BY InvParts DEF Rounds
  <1>3. new \in SUBSET Markets /\ \A m \in new : records[m] \in Records
    BY <1>2
  <1> HIDE DEF new, records
  <1>4. RegistryOK' /\ NoneLetGo
    BY <1>1, <1>3, InvParts, UpsertKeeps, UpsertLetsNoneGo
  <1>5. copies' \in [Markets -> Records \cup {Absent}]
    BY <1>1, <1>3, InvParts DEF Track
  <1> QED BY <1>1, <1>4, <1>5, InvParts, SameFailures

LEMMA ApplyKnownInv ==
    ASSUME Inv, ApplyKnown
    PROVE  Inv' /\ LetGo
  <1> DEFINE active == {m \in Missing : Askable(m)}
             made(m) == [status |-> "candidate", event |-> FALSE, named |-> m \notin Slugless]
  <1>1. /\ Apply("known")
        /\ round' = [round EXCEPT
                        !.phase = "missing",
                        !.asked = [m \in Markets |-> IF m \in active THEN made(m) ELSE Absent],
                        !.answers = Idle.answers,
                        !.waiting = active,
                        !.seen = {}]
    BY DEF ApplyKnown
  <1>2. active \subseteq Markets /\ \A m \in active : failures[m] < Threshold
    BY InvParts DEF Missing, Askable
  <1>3. \A m : made(m) \in Records
    BY DEF Records, Statuses
  <1> HIDE DEF active, made
  <1>4. round' \in Rounds /\ round'.waiting = active
    BY <1>1, <1>2, <1>3, InvParts DEF Rounds, Idle
  <1>5. UNCHANGED failures
    BY <1>1, ApplyKeeps
  <1>6. WaitingIsAskable'
    BY <1>2, <1>4, <1>5 DEF WaitingIsAskable, Askable
  <1> QED BY <1>1, <1>4, <1>6, ApplyKeeps, InvParts, TogetherInv, NoneIsKnown

(* Outside its requests a round waits for nobody's answer. *)
LEMMA NobodyWaits ==
    ASSUME round'.phase \notin {"known", "missing"}
    PROVE  WaitingIsAskable'
  BY DEF WaitingIsAskable

LEMMA ApplyMissingInv ==
    ASSUME Inv, ApplyMissing
    PROVE  Inv' /\ LetGo
  <1>1. Apply("missing") /\ round' = [Idle EXCEPT !.phase = "planning"]
    BY DEF ApplyMissing
  <1>2. round' \in Rounds /\ round'.phase = "planning"
    BY <1>1 DEF Rounds, Idle
  <1> QED BY <1>1, <1>2, NobodyWaits, ApplyKeeps, InvParts, TogetherInv, NoneIsKnown

LEMMA BeginPruneInv ==
    ASSUME Inv, BeginPrune
    PROVE  Inv' /\ LetGo
  <1>1. /\ UNCHANGED registry_vars
        /\ UNCHANGED <<copies, deaf, failures, exposed, over>>
        /\ round' = IF Listed = {} THEN Idle
                    ELSE [Idle EXCEPT !.phase = "pruning", !.asked = listed,
                                      !.waiting = Listed, !.seen = exposed]
    BY DEF BeginPrune, stream_vars, world_vars
  <1>2. Listed \subseteq Markets
    BY DEF Listed
  <1>3. round' \in Rounds /\ round'.phase \in {"idle", "pruning"}
    BY <1>1, <1>2, InvParts DEF Rounds, Idle, RegistryOK
  <1>4. RegistryOK' /\ NoneLetGo
    BY <1>1, InvParts, SameRegistry, SameLetsNoneGo
  <1> QED BY <1>1, <1>3, <1>4, NobodyWaits, InvParts, TogetherInv, NoneIsKnown

(* The prune lets go whom it did not know to be exposed when it began. *)
LEMMA PruneBatchInv ==
    ASSUME Inv, PruneBatch
    PROVE  Inv' /\ LetGo
  <1>1. PICK batch \in SUBSET round.waiting, elapsed \in SUBSET over :
            LET gone == {m \in batch \ round.seen : Inactive(round.asked[m]) \/ m \in elapsed}
            IN  /\ Remove(gone)
                /\ Untrack(gone)
                /\ round' = IF batch = round.waiting THEN Idle
                            ELSE [round EXCEPT
                                     !.waiting = @ \ batch,
                                     !.asked = [m \in Markets |-> IF m \in batch THEN Absent ELSE @[m]]]
    BY DEF PruneBatch
  <1> DEFINE gone == {m \in batch \ round.seen : Inactive(round.asked[m]) \/ m \in elapsed}
  <1>2. /\ Remove(gone) /\ Untrack(gone)
        /\ round.phase = "pruning" /\ UNCHANGED <<exposed, over>>
        /\ \A m \in gone : m \notin round.seen
    BY <1>1 DEF PruneBatch, world_vars
  <1>3. round' \in Rounds /\ round'.phase \in {"idle", "pruning"}
    <2>1. CASE batch = round.waiting
      BY <1>1, <2>1, IdleIsRound DEF Idle
    <2>2. CASE batch # round.waiting
      <3> DEFINE left == [m \in Markets |-> IF m \in batch THEN Absent ELSE round.asked[m]]
      <3>1. round' = [round EXCEPT !.waiting = round.waiting \ batch, !.asked = left]
        BY <1>1, <2>2, InvParts DEF Rounds
      <3>2. left \in [Markets -> Records \cup {Absent}]
        BY InvParts DEF Rounds
      <3> HIDE DEF left
      <3> QED BY <1>2, <3>1, <3>2, InvParts DEF Rounds
    <2> QED BY <2>1, <2>2
  <1> HIDE DEF gone
  <1>4. /\ RegistryOK' /\ FailuresFall
        /\ \A m \in Markets : listed'[m] = IF m \in gone THEN Absent ELSE listed[m]
    BY <1>2, InvParts, RemoveKeeps
  <1>5. copies' \in [Markets -> Records \cup {Absent}] /\ deaf' \subseteq Markets
    BY <1>2, InvParts, UntrackType
  <1>6. LetGo
    BY <1>2, <1>4 DEF LetGo, Listed
  <1> QED BY <1>2, <1>3, <1>4, <1>5, <1>6, NobodyWaits, InvParts, TogetherInv DEF FailuresFall

----------------------------------------------------------------------------
(* The world, and all together *)

LEMMA WorldInv ==
    ASSUME Inv, NEW m \in Markets, Gain(m) \/ Lose(m) \/ End(m)
    PROVE  Inv' /\ LetGo
  <1>1. /\ UNCHANGED registry_vars
        /\ UNCHANGED <<copies, deaf, failures, round>>
        /\ exposed' \subseteq Traded /\ over' \subseteq Markets
    BY InvParts DEF Gain, Lose, End, stream_vars
  <1>2. RegistryOK' /\ NoneLetGo /\ FailuresFall
    BY <1>1, InvParts, SameRegistry, SameLetsNoneGo, SameFailures
  <1>3. WaitingIsAskable'
    BY <1>1, <1>2, WaitingStays
  <1> QED BY <1>1, <1>2, <1>3, InvParts, TogetherInv, NoneIsKnown

(* The program starts with the invariant, whatever the account holds. *)
LEMMA InitInv == Init => Inv
  <1> SUFFICES ASSUME Init PROVE Inv
    OBVIOUS
  <1>1. Listed = {} /\ \A e \in Events : owner[e] = NoMarket
    BY DEF Init, Listed
  <1>2. TypeOK
    BY IdleIsRound, LimitsAssumption DEF Init, TypeOK, Rounds
  <1>3. WaitingIsAskable
    BY DEF Init, Idle, WaitingIsAskable
  <1> QED BY <1>1, <1>2, <1>3 DEF Inv, OwnersAreListed

LEMMA NextInv ==
    ASSUME Inv, Next
    PROVE  Inv' /\ LetGo
  <1>1. ASSUME NEW m \in Markets, Message(m) \/ MarketResolved(m) \/ NewMarket(m)
        PROVE  Inv' /\ LetGo
    BY <1>1, MessageInv, MarketResolvedInv, NewMarketInv
  <1>2. ASSUME NEW m \in Markets, Answer(m)
        PROVE  Inv' /\ LetGo
    BY <1>2, AnswerListedInv, AnswerAliveInv, AnswerDeadInv DEF Answer
  <1>3. CASE Conclude
    BY <1>3, ApplyKnownInv, ApplyMissingInv, BeginPruneInv, PruneBatchInv DEF Conclude
  <1>4. \A scope \in {{}} \cup {{m} : m \in Markets} : scope \in SUBSET Markets
    OBVIOUS
  <1> QED BY <1>1, <1>2, <1>3, <1>4, IngestInv, PruneStaleInv, BeginRoundInv, WorldInv DEF Next

LEMMA StutterInv ==
    ASSUME Inv, UNCHANGED vars
    PROVE  Inv' /\ LetGo
  <1>1. /\ UNCHANGED registry_vars
        /\ UNCHANGED <<copies, deaf, failures, round, exposed, over>>
    BY DEF vars, registry_vars
  <1>2. RegistryOK' /\ NoneLetGo /\ FailuresFall
    BY <1>1, InvParts, SameRegistry, SameLetsNoneGo, SameFailures
  <1>3. WaitingIsAskable'
    BY <1>1, <1>2, WaitingStays
  <1> QED BY <1>1, <1>2, <1>3, InvParts, TogetherInv, NoneIsKnown

(* The invariant holds for any markets, events and limits, whatever the stream *)
(* delivers, Gamma answers and the account does.                               *)
THEOREM Invariance == Spec => []Inv
  <1>1. Inv /\ [Next]_vars => Inv'
    BY NextInv, StutterInv
  <1> QED BY InitInv, <1>1, PTL DEF Spec

(* Every variable keeps its type; no count of failures passes the threshold.   *)
THEOREM TypeCorrect == Spec => []TypeOK
  <1>1. Inv => TypeOK
    BY DEF Inv
  <1> QED BY <1>1, Invariance, PTL

(* _condition_id_by_event_slug never names a market that is gone, or one of    *)
(* another event, whoever wrote the registry last.                             *)
THEOREM IndexIsTrue == Spec => []OwnersAreListed
  <1>1. Inv => OwnersAreListed
    BY DEF Inv
  <1> QED BY <1>1, Invariance, PTL

(* A market the account is exposed in leaves the registry only by the prune of *)
(* a round that began before the exposure, or by the discovery of a sibling    *)
(* that has the slug of their event.                                           *)
THEOREM KnowinglyLeft == Spec => ExposedLeavesKnowingly
  <1>1. Inv /\ [Next]_vars => [LetGo]_vars
    BY NextInv
  <1>2. Spec => [][LetGo]_vars
    BY <1>1, Invariance, PTL DEF Spec
  <1> QED BY <1>2 DEF ExposedLeavesKnowingly, LetGo

=============================================================================
