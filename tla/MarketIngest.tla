---------------------------- MODULE MarketIngest ----------------------------
(* What becomes of one listed market (ingest_service.py, discovery_worker.py,  *)
(* app/market_payload_parser.py): parsed, judged, tracked or not, and told to  *)
(* the audit log or not.  The pages of the scan, the expansion of an event,    *)
(* the refresh of a held market and the stream's new_market messages all end   *)
(* here; each market is handled without an await before it is published.       *)
(* Other services write the registry as well, and most of them tell no one: the *)
(* reconcile round's refresh of what Gamma says (authority_refresher.py), its   *)
(* markets of the account's positions, its quarantine, and the market stream.   *)
(* MarketRegistry has what the registry's indexes do about it.                 *)
EXTENDS Integers, FiniteSets

CONSTANTS
    Markets,
    Reasons,        \* why the workflow may leave a market out
    NoReason

ASSUME NoReasonAssumption ==
    NoReason \notin Reasons \cup {"missing_trading_conditions", "market_resolved"}

VARIABLES
    copy,           \* the registry's copy of a market: absent, active or paused
    exposed,        \* those the account has a position or an order in
    seen,           \* _seen_by_condition_id, whose 100 000 places are never full here
    reason,         \* _last_filter_reason of the ingest service
    told,           \* what the audit log has of a market: discovered, updated, filtered
    lent,           \* those another service has its own copy of, to write it later
    quiet           \* history: whose copy another service changed since a listing last did

ingest_vars == <<copy, exposed, seen, reason, told, lent, quiet>>

\* the parser's own reason, and the one of a market that is over
Unparsed == "missing_trading_conditions"
Over == "market_resolved"
Why == Reasons \cup {Unparsed, Over}

Kinds == {"discovered", "updated", "filtered"}

IngestTypeOK ==
    /\ copy \in [Markets -> {"absent", "active", "paused"}]
    /\ exposed \in SUBSET Markets /\ seen \in SUBSET Markets
    /\ lent \in SUBSET Markets /\ quiet \in SUBSET Markets
    /\ reason \in [Markets -> Why \cup {NoReason}]
    /\ told \in [Markets -> [discovered : 0 .. 2, latest : Kinds \cup {"nothing"}]]

IngestInit ==
    /\ copy = [m \in Markets |-> "absent"]
    /\ exposed = {} /\ seen = {} /\ lent = {} /\ quiet = {}
    /\ reason = [m \in Markets |-> NoReason]
    /\ told = [m \in Markets |-> [discovered |-> 0, latest |-> "nothing"]]

-----------------------------------------------------------------------------
(* The judgement of a listing: left out for a reason, or selected (NoReason).  *)
(* Only a market without exposure can be over; what is not parsed is not       *)
(* looked up, so it leaves the registry as it is.                              *)

Judgements(m) == (Why \cup {NoReason}) \ (IF m \in exposed THEN {Over} ELSE {})

Tracked(m) == copy[m] # "absent"
Known(m, why) == Tracked(m) /\ why # Unparsed

(* A market left out stays tracked, and paused, while the account is exposed   *)
(* to it; without exposure it is dropped.                                      *)
Retained(m, why) == Known(m, why) /\ why \in Reasons /\ m \in exposed
Dropped(m, why) == Known(m, why) /\ why # NoReason /\ ~Retained(m, why)

CopyAfter(m, why) ==
    CASE why = NoReason -> "active"
      [] Retained(m, why) -> "paused"
      [] Dropped(m, why) -> "absent"
      [] OTHER -> copy[m]

(* _apply_filter_dedupe: the same reason twice is silence, so is any reason    *)
(* within five minutes of the last one (which is then not remembered); a       *)
(* market selected again starts afresh.                                        *)
Silent(m, why, lately) == why # NoReason /\ (reason[m] = why \/ lately)

ReasonAfter(m, why, lately) ==
    IF why = NoReason \/ ~Silent(m, why, lately) THEN why ELSE reason[m]

KindOf(m, why) ==
    IF why # NoReason THEN "filtered"
    ELSE IF Tracked(m) \/ m \in seen THEN "updated" ELSE "discovered"

(* The payload is the one seen last, and the registry's copy stays as it is.   *)
UnchangedPayload(m, why, same) == same /\ m \in seen
Unchanged(m, why, same) ==
    same /\ m \in seen /\ Known(m, why) /\ CopyAfter(m, why) = copy[m]

(* What is published: a market selected, kept or dropped, and one left out     *)
(* that was never seen; not what changes neither the payload nor the registry. *)
Published(m, why, lately, same) ==
    /\ ~Silent(m, why, lately)
    /\ \/ why = NoReason \/ Retained(m, why) \/ Dropped(m, why)
       \/ m \notin seen /\ why # Unparsed
    /\ ~Unchanged(m, why, same)

Ingest(m, why, lately, same) ==
    /\ why \in Judgements(m)
    /\ copy' = [copy EXCEPT ![m] = CopyAfter(m, why)]
    /\ seen' = seen \cup {m}
    /\ reason' = [reason EXCEPT ![m] = ReasonAfter(m, why, lately)]
    /\ told' = IF ~Published(m, why, lately, same) THEN told
               ELSE [told EXCEPT ![m] =
                        [discovered |-> @.discovered + (IF KindOf(m, why) = "discovered" THEN 1 ELSE 0),
                         latest |-> KindOf(m, why)]]
    /\ quiet' = IF Published(m, why, lately, same) \/ CopyAfter(m, why) # copy[m]
                THEN quiet \ {m} ELSE quiet
    /\ UNCHANGED <<exposed, lent>>

-----------------------------------------------------------------------------
(* The account, and the reconcile round that prunes the registry.              *)

Enter(m) ==
    /\ m \notin exposed
    /\ exposed' = exposed \cup {m}
    /\ UNCHANGED <<copy, seen, reason, told, lent, quiet>>

Leave(m) ==
    /\ m \in exposed
    /\ exposed' = exposed \ {m}
    /\ UNCHANGED <<copy, seen, reason, told, lent, quiet>>

Prune(m) ==
    /\ Tracked(m) /\ m \notin exposed
    /\ copy' = [copy EXCEPT ![m] = "absent"]
    /\ UNCHANGED <<exposed, seen, reason, told, lent, quiet>>

-----------------------------------------------------------------------------
(* The other writers.  A refresh takes the registry's copy, or the market of a *)
(* position the registry has none of, and awaits Gamma; the stream keeps the   *)
(* copies it tracks.                                                           *)

TakeUp(m) ==
    /\ Tracked(m) \/ m \in exposed
    /\ lent' = lent \cup {m}
    /\ UNCHANGED <<copy, exposed, seen, reason, told, quiet>>

(* Then it is written, as Gamma has it or as it was, whatever became of the    *)
(* registry's copy in between; and the log is told nothing.                    *)
WriteBack(m, status) ==
    /\ m \in lent
    /\ copy' = [copy EXCEPT ![m] = status]
    /\ quiet' = IF status = copy[m] THEN quiet ELSE quiet \cup {m}
    /\ lent' = lent \ {m}
    /\ UNCHANGED <<exposed, seen, reason, told>>

(* The stream's new_market with another fee is told as an update.              *)
FeesChange(m) ==
    /\ m \in lent
    /\ told' = [told EXCEPT ![m].latest = "updated"]
    /\ UNCHANGED <<copy, exposed, seen, reason, lent, quiet>>

IngestNext ==
    \E m \in Markets :
        \/ Enter(m) \/ Leave(m) \/ Prune(m)
        \/ TakeUp(m) \/ FeesChange(m)
        \/ \E status \in {"active", "paused"} : WriteBack(m, status)
        \/ \E why \in Why \cup {NoReason}, lately, same \in BOOLEAN : Ingest(m, why, lately, same)

IngestSpec == IngestInit /\ [][IngestNext]_ingest_vars

-----------------------------------------------------------------------------
(* The hazard of the silences between a market and the log: a listing that     *)
(* looks the same may still bring a paused market back.  What a listing made   *)
(* active was last told as discovered or updated, never as filtered.  Of a     *)
(* market that another service made active the log need know nothing, and      *)
(* listings that change nothing then leave it so.                              *)
ActiveWasTold ==
    \A m \in Markets \ quiet :
        copy[m] = "active" => told[m].latest \in {"discovered", "updated"}

(* The incident the worker's own memory was built for (N8): pruned, missed and *)
(* listed again, the same few thousand markets were written to the audit log   *)
(* as discovered many times over.  One market is discovered at most once,      *)
(* however often it leaves the registry and comes back.                        *)
DiscoveredOnce == \A m \in Markets : told[m].discovered <= 1

(* What the audit log tells of the registry.                                   *)
LogFollowsRegistry == ActiveWasTold /\ DiscoveredOnce
=============================================================================
