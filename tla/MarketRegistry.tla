--------------------------- MODULE MarketRegistry ---------------------------
(***************************************************************************)
(* The registry of markets and everyone who writes it: discovery, the      *)
(* market stream with its own copies, a reconcile round that refreshes     *)
(* what the account is exposed in and then prunes, and the periodic prune. *)
(*                                                                         *)
(* A market has one token and one event; what the listing says of prices,  *)
(* fees and times is left out. The program starts with an empty registry   *)
(* whatever the account holds, so Init is also the state after a restart.  *)
(***************************************************************************)
EXTENDS Integers, FiniteSets

CONSTANTS
    Markets,
    Events,
    EventOf,         \* the event of a market
    NamedLikeEvent,  \* markets whose slug is the slug of their event
    Slugless,        \* markets whose positions come without a slug
    Traded,          \* markets the account may become exposed in
    Streamed,        \* markets whose messages the stream may still deliver
    Threshold,       \* _quarantine_threshold
    YieldEvery,      \* _RECONCILE_YIELD_EVERY
    NoMarket

ASSUME EventsAssumption == EventOf \in [Markets -> Events] /\ NoMarket \notin Markets
ASSUME SubsetsAssumption ==
    NamedLikeEvent \subseteq Markets /\ Slugless \subseteq Markets
    /\ Traded \subseteq Markets /\ Streamed \subseteq Markets
ASSUME LimitsAssumption == Threshold \in Nat \ {0} /\ YieldEvery \in Nat \ {0}

VARIABLES
    listed,   \* the registry: what it holds of every market
    owner,    \* _condition_id_by_event_slug
    copies,   \* _tracked_markets of the stream worker
    deaf,     \* markets whose book state is marked resolved
    failures, \* _condition_failure_counts
    round,    \* the reconcile round under way
    exposed,  \* markets with a position or an order, as the account store has it
    over      \* markets that are settled in the world

stream_vars == <<copies, deaf>>
registry_vars == <<listed, owner>>
world_vars == <<exposed, over>>
vars == <<listed, owner, copies, deaf, failures, round, exposed, over>>

(* A market record: its status (a paused market with the reason of the        *)
(* quarantine apart), whether its event is known, and whether it has its own   *)
(* slug or the made-up one of an account exposure.                             *)
Statuses == {"candidate", "eligible", "paused", "quarantined", "closed", "resolved"}
Absent == [status |-> "absent", event |-> FALSE, named |-> FALSE]
Records == [status : Statuses, event : BOOLEAN, named : BOOLEAN]

Listed == {m \in Markets : listed[m] # Absent}
Found(status) == [status |-> status, event |-> TRUE, named |-> TRUE]

(* Nothing of anyone's to do: an empty round. *)
Idle == [phase |-> "idle", scope |-> {}, asked |-> [m \in Markets |-> Absent],
         answers |-> [m \in Markets |-> Absent], waiting |-> {}, seen |-> {}]

----------------------------------------------------------------------------
(* The registry *)

(* _detach_indexes *)
OwnersAfter(gone) == [e \in Events |-> IF owner[e] \in gone THEN NoMarket ELSE owner[e]]

(* upsert of some markets one after the other, with no await between: an      *)
(* owner gives its event back to itself, an event without one goes to the      *)
(* first of them, whichever that is.                                           *)
Upsert(new, records) ==
    /\ listed' = [m \in Markets |-> IF m \in new THEN records[m] ELSE listed[m]]
    /\ \E o \in [Events -> Markets \cup {NoMarket}] :
          /\ \A e \in Events :
                LET claimants == {m \in new : EventOf[m] = e /\ records[m].event}
                    stays == owner[e] # NoMarket /\ (owner[e] \in new => owner[e] \in claimants)
                IN  IF stays THEN o[e] = owner[e]
                    ELSE IF claimants = {} THEN o[e] = NoMarket
                    ELSE o[e] \in claimants
          /\ owner' = o

Upsert1(m, record) == Upsert({m}, [n \in Markets |-> record])

(* remove_market, with the refresher's evict_market among its listeners *)
Remove(gone) ==
    /\ listed' = [m \in Markets |-> IF m \in gone THEN Absent ELSE listed[m]]
    /\ owner' = OwnersAfter(gone \cap Listed)
    /\ failures' = [m \in Markets |-> IF m \in gone \cap Listed THEN 0 ELSE failures[m]]

(* get_by_slug: by the slug of a market, then by the slug of an event. *)
BySlug(m) ==
    IF m \in Listed /\ listed[m].named THEN m
    ELSE IF m \in NamedLikeEvent THEN owner[EventOf[m]] ELSE NoMarket

(* inactive_market_reason; the end date of a settled market may have passed *)
Inactive(record) == record.status \in {"paused", "quarantined", "closed", "resolved"}

----------------------------------------------------------------------------
(* The stream *)

Track(new, records) == copies' = [m \in Markets |-> IF m \in new THEN records[m] ELSE copies[m]]

(* untrack_market: the book state goes with the copy. *)
Untrack(gone) ==
    /\ copies' = [m \in Markets |-> IF m \in gone THEN Absent ELSE copies[m]]
    /\ deaf' = deaf \ gone

(* _resolve_market: its own copy comes first. *)
Resolved(m) == IF copies[m] # Absent THEN copies[m] ELSE listed[m]

(* Any other message only makes the worker keep a copy. *)
Message(m) ==
    /\ m \in Streamed
    /\ copies[m] = Absent
    /\ m \in Listed
    /\ Track({m}, listed)
    /\ UNCHANGED <<registry_vars, deaf, failures, round, world_vars>>

(* Mutant: a resolved market is pruned whatever the account holds. *)
MayLeaveResolvedAlways(m) == TRUE

(* _maybe_prune_on_resolved *)
MayLeaveResolved(m) == m \notin exposed

MarketResolved(m) ==
    LET record == [listed[m] EXCEPT !.status = "resolved"]
    IN  /\ m \in Streamed \cap over
        /\ deaf' = deaf \cup {m}
        /\ IF m \notin Listed
           THEN UNCHANGED <<registry_vars, copies, failures>>
           ELSE /\ Track({m}, [n \in Markets |-> record])
                /\ IF MayLeaveResolved(m)
                   THEN Remove({m})
                   ELSE Upsert1(m, record) /\ UNCHANGED failures
        /\ UNCHANGED <<round, world_vars>>

(* A new_market message puts the copy into the registry, or, when it changes   *)
(* the fees, takes the registry's record as the new copy.                      *)
NewMarket(m) ==
    /\ m \in Streamed \ deaf
    /\ Resolved(m) # Absent
    /\ \/ Upsert1(m, Resolved(m)) /\ Track({m}, [n \in Markets |-> Resolved(m)])
       \/ /\ Track({m}, [n \in Markets |-> IF m \in Listed THEN listed[m] ELSE Resolved(m)])
          /\ UNCHANGED registry_vars
    /\ UNCHANGED <<deaf, failures, round, world_vars>>

----------------------------------------------------------------------------
(* Discovery *)

(* What Gamma lists of a market: it may learn late that the market is over. *)
Listings(m) == IF m \in over THEN {"eligible", "closed"} ELSE {"eligible"}

(* build_filtered_tracking_market *)
Retained(existing) ==
    Found(IF listed[existing].status \in {"closed", "resolved"}
          THEN listed[existing].status ELSE "paused")

(* ingest_raw_market: the reasons to prune are those of the listing; what is   *)
(* removed is the market the lookup found.                                     *)
Ingest(m, status) ==
    LET existing == IF m \in Listed THEN m ELSE BySlug(m)
        leave == IF existing = NoMarket THEN UNCHANGED <<registry_vars, stream_vars, failures>>
                 ELSE Remove({existing}) /\ Untrack({existing})
        keep(record) == /\ Upsert1(m, record)
                        /\ Track({m}, [n \in Markets |-> record])
                        /\ UNCHANGED <<deaf, failures>>
        prunable == m \notin exposed /\ Inactive(Found(status))
        elapsed == m \notin exposed /\ m \in over
    IN  /\ status \in Listings(m)
        /\ \/ (prunable \/ elapsed) /\ leave
           \/ ~prunable /\ keep(Found(status))
           \/ ~prunable /\ IF existing \in exposed THEN keep(Retained(existing)) ELSE leave
        /\ UNCHANGED <<round, world_vars>>

(* _prune_stale_markets, of the registry only *)
PruneStale ==
    /\ \E elapsed \in SUBSET over :
          LET gone == {m \in Listed \ exposed : Inactive(listed[m]) \/ m \in elapsed}
          IN  gone # {} /\ Remove(gone)
    /\ UNCHANGED <<stream_vars, round, world_vars>>

----------------------------------------------------------------------------
(* The reconcile round *)

(* the filter of _refresh_market_authority_targets *)
Askable(m) == failures[m] < Threshold

(* refresh: of all markets those with exposure, or those an operator names.     *)
(* What is quarantined and no longer held is swept first, and its count is     *)
(* gone by the time the filter looks at it.                                    *)
BeginRound(scope) ==
    LET wanted == Listed \cap (IF scope = {} THEN exposed ELSE scope)
        swept == {m \in wanted \ exposed :
                     failures[m] >= Threshold \/ listed[m].status = "quarantined"}
        active == {m \in wanted : m \in swept \/ Askable(m)}
    IN  /\ round = Idle
        /\ Remove(swept)
        /\ round' = [phase |-> "known", scope |-> scope,
                     asked |-> [m \in Markets |-> IF m \in active THEN listed[m] ELSE Absent],
                     answers |-> Idle.answers, waiting |-> active, seen |-> Listed]
        /\ UNCHANGED <<stream_vars, world_vars>>

(* One of the concurrent requests of a round comes back. *)
Returns(m, answer) ==
    /\ m \in round.waiting
    /\ round.phase \in {"known", "missing"}
    /\ round' = [round EXCEPT !.waiting = @ \ {m}, !.answers[m] = answer]
    /\ UNCHANGED <<stream_vars, world_vars>>

Cleared(m) == failures' = [failures EXCEPT ![m] = 0] /\ UNCHANGED registry_vars

(* _merge_gamma_market: the copy taken before the request decides whether the  *)
(* market stays resolved.                                                      *)
Merged(record, status) ==
    [record EXCEPT !.status = IF @ = "resolved" THEN @ ELSE status, !.event = TRUE]

AnswerListed(m) ==
    /\ \E status \in Listings(m) : Returns(m, Merged(round.asked[m], status))
    /\ Cleared(m)

(* The listing fails; a fee is read, or the stream is alive, which it is not   *)
(* for a market that is over.                                                  *)
AnswerAlive(m) ==
    /\ m \notin over
    /\ \E answer \in {round.asked[m], Absent} : Returns(m, answer)
    /\ Cleared(m)

(* _apply_quarantine_pause, on the copy taken before the request; removing a   *)
(* market that is not listed tells no listener, so its count stays.            *)
PutAside(m) ==
    IF m \in exposed
    THEN /\ Upsert1(m, [round.asked[m] EXCEPT !.status = "quarantined"])
         /\ failures' = [failures EXCEPT ![m] = @ + 1]
    ELSE /\ listed' = [listed EXCEPT ![m] = Absent]
         /\ owner' = OwnersAfter({m} \cap Listed)
         /\ failures' = [failures EXCEPT ![m] = IF m \in Listed THEN 0 ELSE @ + 1]

AnswerDead(m) ==
    /\ Returns(m, Absent)
    /\ IF failures[m] + 1 >= Threshold
       THEN PutAside(m)
       ELSE failures' = [failures EXCEPT ![m] = @ + 1] /\ UNCHANGED registry_vars

(* All requests of a phase are back: what they brought is tracked in one go; a *)
(* market without a slug of its own even when they brought nothing.            *)
Apply(phase) ==
    LET brought(m) == round.answers[m] # Absent
        madeUp(m) == round.asked[m] # Absent /\ ~round.asked[m].named
        new == {m \in Markets : brought(m) \/ madeUp(m)}
        records == [m \in Markets |-> IF brought(m) THEN round.answers[m] ELSE round.asked[m]]
    IN  /\ round.phase = phase
        /\ round.waiting = {}
        /\ Upsert(new, records)
        /\ Track(new, records)
        /\ UNCHANGED <<deaf, failures, world_vars>>

(* Mutant: what was listed when the round began counts as all there is. *)
MissingFromNothing == {}

(* _missing_account_exposure_targets, once the answers are applied *)
Missing == {m \in exposed \ (round.seen \cup Listed') : round.scope = {} \/ m \in round.scope}

ApplyKnown ==
    /\ Apply("known")
    /\ LET active == {m \in Missing : Askable(m)}
       IN  round' = [round EXCEPT
                        !.phase = "missing",
                        !.asked = [m \in Markets |->
                            IF m \in active
                            THEN [status |-> "candidate", event |-> FALSE, named |-> m \notin Slugless]
                            ELSE Absent],
                        !.answers = Idle.answers,
                        !.waiting = active,
                        !.seen = {}]

ApplyMissing ==
    /\ Apply("missing")
    /\ round' = [Idle EXCEPT !.phase = "planning"]

(* _prune_unsubscribable_markets begins: registry and account as they are now. *)
BeginPrune ==
    /\ round.phase = "planning"
    /\ round' = IF Listed = {} THEN Idle
                ELSE [Idle EXCEPT !.phase = "pruning", !.asked = listed,
                                  !.waiting = Listed, !.seen = exposed]
    /\ UNCHANGED <<registry_vars, stream_vars, failures, world_vars>>

PruneBatch ==
    /\ round.phase = "pruning"
    /\ \E batch \in SUBSET round.waiting, elapsed \in SUBSET over :
          LET gone == {m \in batch \ round.seen : Inactive(round.asked[m]) \/ m \in elapsed}
          IN  /\ batch = round.waiting \/ Cardinality(batch) = YieldEvery
              /\ elapsed \subseteq batch
              /\ Remove(gone)
              /\ Untrack(gone)
              /\ round' = IF batch = round.waiting THEN Idle
                          ELSE [round EXCEPT
                                   !.waiting = @ \ batch,
                                   !.asked = [m \in Markets |-> IF m \in batch THEN Absent ELSE @[m]]]
    /\ UNCHANGED world_vars

----------------------------------------------------------------------------
(* The world: positions come and go, by fills or by a poll, and markets end. *)

Gain(m) ==
    /\ m \in Traded \ exposed
    /\ exposed' = exposed \cup {m}
    /\ UNCHANGED <<registry_vars, stream_vars, failures, round, over>>

Lose(m) ==
    /\ m \in exposed
    /\ exposed' = exposed \ {m}
    /\ UNCHANGED <<registry_vars, stream_vars, failures, round, over>>

End(m) ==
    /\ m \notin over
    /\ over' = over \cup {m}
    /\ UNCHANGED <<registry_vars, stream_vars, failures, round, exposed>>

----------------------------------------------------------------------------
Init ==
    /\ listed = [m \in Markets |-> Absent]
    /\ owner = [e \in Events |-> NoMarket]
    /\ copies = [m \in Markets |-> Absent]
    /\ deaf = {}
    /\ failures = [m \in Markets |-> 0]
    /\ round = Idle
    /\ exposed \in SUBSET Traded
    /\ over \in SUBSET Markets

Answer(m) == AnswerListed(m) \/ AnswerAlive(m) \/ AnswerDead(m)

Conclude == ApplyKnown \/ ApplyMissing \/ BeginPrune \/ PruneBatch

Next ==
    \/ \E m \in Markets : Message(m) \/ MarketResolved(m) \/ NewMarket(m)
    \/ \E m \in Markets, status \in {"eligible", "closed"} : Ingest(m, status)
    \/ PruneStale
    \/ \E scope \in {{}} \cup {{m} : m \in Markets} : BeginRound(scope)
    \/ \E m \in Markets : Answer(m)
    \/ Conclude
    \/ \E m \in Markets : Gain(m) \/ Lose(m) \/ End(m)

(* Rounds are run again and again, they go on, and every request of theirs     *)
(* returns, by its time limit if by nothing else. Gamma may fail any number of *)
(* times but not for ever, except for a market that is over, which it may have *)
(* deleted.                                                                    *)
Fairness ==
    /\ SF_vars(BeginRound({}))
    /\ WF_vars(\E m \in Markets : Answer(m))
    /\ WF_vars(Conclude)
    /\ \A m \in Traded : SF_vars(m \notin over /\ AnswerListed(m))

Spec == Init /\ [][Next]_vars
FairSpec == Spec /\ Fairness

----------------------------------------------------------------------------
(* Properties *)

TypeOK ==
    /\ listed \in [Markets -> Records \cup {Absent}]
    /\ owner \in [Events -> Markets \cup {NoMarket}]
    /\ copies \in [Markets -> Records \cup {Absent}]
    /\ deaf \subseteq Markets
    /\ failures \in [Markets -> 0..Threshold]
    /\ round \in [phase : {"idle", "known", "missing", "planning", "pruning"},
                  scope : SUBSET Markets,
                  asked : [Markets -> Records \cup {Absent}],
                  answers : [Markets -> Records \cup {Absent}],
                  waiting : SUBSET Markets, seen : SUBSET Markets]
    /\ exposed \subseteq Traded
    /\ over \subseteq Markets

(* A market the account is exposed in leaves the registry only when the        *)
(* exposure is younger than the prune under way, or when a sibling with the    *)
(* slug of their event is discovered. Neither a quarantine, nor the stream's   *)
(* resolution, nor a sweep takes it.                                           *)
ExposedLeavesKnowingly ==
    [][\A m \in Listed \cap exposed :
          listed'[m] = Absent =>
              \/ round.phase = "pruning" /\ m \notin round.seen
              \/ /\ owner[EventOf[m]] = m /\ copies'[m] = Absent
                 /\ \E s \in NamedLikeEvent \ Listed : EventOf[s] = EventOf[m]]_vars

(* Put aside while unknown to the registry: nothing resets its count. *)
Stranded(m) == m \notin Listed /\ failures[m] = Threshold

(* Whatever the account stays exposed in is found in the registry again and    *)
(* again: it may be removed, but the next rounds bring it back                 *)
(* (_missing_account_exposure_targets), unless its requests failed so often    *)
(* while it was neither held nor listed that the filter keeps it out.          *)
ExposedRecovered ==
    \A m \in Traded : []<>(m \notin exposed \/ m \in Listed \/ Stranded(m))

=============================================================================
