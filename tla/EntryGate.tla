------------------------------ MODULE EntryGate ------------------------------
(***************************************************************************)
(* Who may enter a market: the flags of AccountStateStore and every writer *)
(* of them.  Entries need the account-wide gate allow_new_entries, which   *)
(* may open when the user channel is connected and a reconcile round has   *)
(* been marked since it came up, and need the market not to be paused.     *)
(* The writers are the user channel (ws_loops.run_user_ws and the stream   *)
(* task it starts), the reconcile rounds (the maintenance loop's, and those *)
(* the operator or the startup task run beside it), the handling of order  *)
(* results, the operator's pause and resume, and everything that adds      *)
(* markets to the registry or removes them.                                *)
(*                                                                         *)
(* A market is reduced to the verdict a reconcile reaches about it:        *)
(*   tradable  - nothing speaks against trading it;                        *)
(*   halted    - trading status PAUSED, CLOSED or RESOLVED;                *)
(*   abnormal  - its game's live state is postponed, stale, without source.*)
(* Exposure, end dates and terminal live states, which decide whether a    *)
(* market is dropped, are left to choice.  A round's order actions change  *)
(* nothing here and are left out; they are what separates its steps.       *)
(***************************************************************************)
EXTENDS Naturals

CONSTANTS
    Markets,    \* condition ids
    Rounds,     \* callers that may run reconcile_once at the same time
    Loop        \* the one of them that is the maintenance loop

ASSUME LoopAssumption == Loop \in Rounds

VARIABLES
    connected,   \* _user_ws_connected
    reconciled,  \* _last_reconcile_at is not None
    allow,       \* _allow_new_entries
    stream,      \* the stream task of run_user_ws
    tracked,     \* markets in the registry
    status,      \* what a reconcile would find of each market
    pause,       \* _market_pauses
    phase,       \* where each round stands
    todo,        \* markets each round still has before it
    plan,        \* what each round decided about each market
    older        \* history: rounds whose plan for a market is older than its pause

gate == <<connected, reconciled, allow>>
rounds == <<phase, todo, plan>>
markets == <<tracked, status>>
vars == <<gate, stream, markets, pause, rounds, older>>

Verdicts == {"tradable", "halted", "abnormal"}
Reasons == {"market_not_tradable", "live_state", "unexpected_resting_order", "manual_pause"}
Sources == {"MANUAL", "RECONCILE", "RISK"}
Plans == {"leave", "resume"} \cup Reasons

NoPause == [reason |-> "none", source |-> "none", recoverable |-> TRUE]
Pauses == [reason : Reasons, source : Sources, recoverable : BOOLEAN] \cup {NoPause}

\* MarketPause.build when the caller leaves recoverable to its default.
Built(reason, source) ==
    [reason |-> reason, source |-> source,
     recoverable |-> source = "RECONCILE" /\ reason = "market_not_tradable"]

Paused(m) == pause[m] # NoPause
Sticky(m) == Paused(m) /\ ~pause[m].recoverable

Init ==
    /\ connected = FALSE /\ reconciled = FALSE /\ allow = FALSE
    /\ stream = "none"
    /\ tracked = {}
    /\ status \in [Markets -> Verdicts]
    /\ pause = [m \in Markets |-> NoPause]
    /\ phase = [r \in Rounds |-> "idle"]
    /\ todo = [r \in Rounds |-> {}]
    /\ plan = [r \in Rounds |-> [m \in Markets |-> "leave"]]
    /\ older = [m \in Markets |-> {}]

-----------------------------------------------------------------------------
(* The gate's writers in the store.                                        *)

CanOpen == connected /\ reconciled

\* mark_user_ws_connected(True)
MarkConnected ==
    /\ connected' = TRUE
    /\ allow' = reconciled
    /\ UNCHANGED reconciled

\* mark_user_ws_connected(False)
MarkDisconnected == connected' = FALSE /\ reconciled' = FALSE /\ allow' = FALSE

\* Mutant: the mark does not look at the gate.
MarkReconciledOnly == reconciled' = TRUE /\ UNCHANGED <<connected, allow>>

\* mark_reconciled()
MarkReconciled ==
    /\ reconciled' = TRUE
    /\ allow' = connected
    /\ UNCHANGED connected

\* Mutant: whoever asks for the gate gets it.
SetAllowUnchecked(allowed) == allow' = allowed /\ UNCHANGED <<connected, reconciled>>

\* set_allow_new_entries(allowed)
SetAllow(allowed) ==
    /\ allow' = (allowed /\ CanOpen)
    /\ UNCHANGED <<connected, reconciled>>

\* The rounds that hold a plan for market m they have not applied yet.
Planned(m) == {r \in Rounds : phase[r] = "applying" /\ m \in todo[r]}

\* pause_market, with the rounds that will still apply an older plan.
SetPause(m, p, writers) ==
    /\ pause' = [pause EXCEPT ![m] = p]
    /\ older' = [older EXCEPT ![m] = Planned(m) \ writers]

ClearPause(m) == SetPause(m, NoPause, Rounds)

-----------------------------------------------------------------------------
(* The user channel.                                                       *)

\* run_user_ws finds that the subscription it wants is not the one it has: the
\* old stream task is cancelled, which runs none of its hooks, frames already
\* queued are dropped and a new task starts.  The flags are not touched.
Subscribe ==
    /\ stream' = "opening"
    /\ UNCHANGED <<gate, markets, pause, rounds, older>>

\* There is nothing to subscribe to, or there are no credentials.
Unsubscribe ==
    /\ stream' = "none"
    /\ MarkDisconnected
    /\ UNCHANGED <<markets, pause, rounds, older>>

\* The credentials cannot be built: the flag falls, the stream is left alone.
AuthFails ==
    /\ MarkDisconnected
    /\ UNCHANGED <<stream, markets, pause, rounds, older>>

\* on_connect
Connect ==
    /\ stream = "opening" /\ stream' = "up"
    /\ MarkConnected
    /\ UNCHANGED <<markets, pause, rounds, older>>

\* on_reconnect: the connection broke, or could not be opened; try again.
Reconnect ==
    /\ stream \in {"opening", "up"} /\ stream' = "opening"
    /\ MarkDisconnected
    /\ UNCHANGED <<markets, pause, rounds, older>>

\* on_disconnect: the other side closed; the task ends.
Disconnect ==
    /\ stream = "up" /\ stream' = "none"
    /\ MarkDisconnected
    /\ UNCHANGED <<markets, pause, rounds, older>>

Channel == Subscribe \/ Unsubscribe \/ AuthFails \/ Connect \/ Reconnect \/ Disconnect

-----------------------------------------------------------------------------
(* Reconcile rounds: reconcile_once, cut where it suspends.                *)

\* The refresh of market authority begins; the loop's triggers carry no
\* condition ids, the operator may name some.
StartRound(r, scope) ==
    /\ phase[r] = "idle"
    /\ r = Loop => scope = Markets
    /\ phase' = [phase EXCEPT ![r] = "refreshing"]
    /\ todo' = [todo EXCEPT ![r] = scope]
    /\ UNCHANGED <<gate, stream, markets, pause, plan, older>>

PlanForHidesAll(m) ==
    IF status[m] = "halted" THEN "market_not_tradable"
    ELSE IF status[m] = "abnormal" THEN "live_state"
    ELSE IF Paused(m) THEN "resume" ELSE "leave"

\* build_market_plan: a pause that is not recoverable is kept for its reason; a
\* recoverable one is hidden from the verdict and lifted if that is good.
PlanFor(m) ==
    IF Sticky(m) THEN pause[m].reason
    ELSE IF status[m] = "halted" THEN "market_not_tradable"
    ELSE IF status[m] = "abnormal" THEN "live_state"
    ELSE IF Paused(m) THEN "resume"
    ELSE "leave"

\* Refreshed or not, the snapshots are taken and the plan is made.
MakePlan(r) ==
    /\ phase[r] = "refreshing"
    /\ phase' = [phase EXCEPT ![r] = "applying"]
    /\ todo' = [todo EXCEPT ![r] = @ \cap tracked]
    /\ plan' = [plan EXCEPT ![r] =
                  [m \in Markets |-> IF m \in todo'[r] THEN PlanFor(m) ELSE "leave"]]
    /\ older' = [m \in Markets |-> older[m] \ {r}]
    /\ UNCHANGED <<gate, stream, markets, pause>>

\* The plan of one market is applied, whatever has happened to it since.
ApplyMarket(r, m) ==
    /\ phase[r] = "applying" /\ m \in todo[r]
    /\ todo' = [todo EXCEPT ![r] = @ \ {m}]
    /\ plan' = [plan EXCEPT ![r][m] = "leave"]
    /\ \/ /\ plan[r][m] = "leave"
          /\ older' = [older EXCEPT ![m] = @ \ {r}]
          /\ UNCHANGED pause
       \/ plan[r][m] = "resume" /\ ClearPause(m)
       \/ plan[r][m] \in Reasons /\ SetPause(m, Built(plan[r][m], "RECONCILE"), {r})
    /\ UNCHANGED <<gate, stream, markets, phase>>

\* mark_reconciled, whatever the scope was and whatever the refresh met; then
\* the markets that may be dropped are looked for.
MarkRound(r) ==
    /\ phase[r] = "applying" /\ todo[r] = {}
    /\ MarkReconciled
    /\ phase' = [phase EXCEPT ![r] = "pruning"]
    /\ \E unwanted \in SUBSET tracked : todo' = [todo EXCEPT ![r] = unwanted]
    /\ UNCHANGED <<stream, markets, pause, plan, older>>

\* _prune_unsubscribable_markets drops a market and its pause.
PruneMarket(r, m) ==
    /\ phase[r] = "pruning" /\ m \in todo[r]
    /\ todo' = [todo EXCEPT ![r] = @ \ {m}]
    /\ tracked' = tracked \ {m}
    /\ ClearPause(m)
    /\ UNCHANGED <<gate, stream, status, phase, plan>>

EndRound(r) ==
    /\ phase[r] = "pruning" /\ todo[r] = {}
    /\ phase' = [phase EXCEPT ![r] = "idle"]
    /\ UNCHANGED <<gate, stream, markets, pause, todo, plan, older>>

\* An exception: for the loop it is the end of its task.
FailRound(r) ==
    /\ phase[r] \in {"refreshing", "applying", "pruning"}
    /\ phase' = [phase EXCEPT ![r] = IF r = Loop THEN "dead" ELSE "idle"]
    /\ todo' = [todo EXCEPT ![r] = {}]
    /\ plan' = [plan EXCEPT ![r] = [m \in Markets |-> "leave"]]
    /\ older' = [m \in Markets |-> older[m] \ {r}]
    /\ UNCHANGED <<gate, stream, markets, pause>>

Advance(r) ==
    \/ MakePlan(r) \/ MarkRound(r) \/ EndRound(r)
    \/ \E m \in Markets : ApplyMarket(r, m) \/ PruneMarket(r, m)

Reconcile ==
    \E r \in Rounds :
        Advance(r) \/ FailRound(r) \/ (\E scope \in SUBSET Markets \ {{}} : StartRound(r, scope))

-----------------------------------------------------------------------------
(* Order results, the operator, the registry.                *)

\* apply_result_flags: a fill-and-kill order is reported live.
RestingResult(m) ==
    /\ SetAllow(FALSE)
    /\ SetPause(m, Built("unexpected_resting_order", "RISK"), {})
    /\ UNCHANGED <<stream, markets, rounds>>

\* apply_result_flags: rejected, failed or timed out, on either side.
RefusedResult ==
    /\ SetAllow(TRUE)
    /\ UNCHANGED <<stream, markets, pause, rounds, older>>

PauseManually(m) ==
    /\ SetPause(m, [reason |-> "manual_pause", source |-> "MANUAL", recoverable |-> TRUE], {})
    /\ UNCHANGED <<gate, stream, markets, rounds>>

ResumeManually(m) ==
    /\ ClearPause(m)
    /\ UNCHANGED <<gate, stream, markets, rounds>>

Track(m) ==
    /\ m \notin tracked /\ tracked' = tracked \cup {m}
    /\ UNCHANGED <<gate, stream, status, pause, rounds, older>>

\* The removals that are not part of a round: the job that prunes stale markets,
\* the market channel on a resolution, discovery and the quarantine.
Untrack(m) ==
    /\ m \in tracked /\ tracked' = tracked \ {m}
    /\ UNCHANGED <<gate, stream, status, pause, rounds, older>>

ChangeStatus(m, verdict) ==
    /\ status[m] # verdict
    /\ status' = [status EXCEPT ![m] = verdict]
    /\ UNCHANGED <<gate, stream, tracked, pause, rounds, older>>

Others ==
    \/ RefusedResult
    \/ \E m \in Markets :
         \/ RestingResult(m) \/ PauseManually(m) \/ ResumeManually(m)
         \/ Track(m) \/ Untrack(m)
         \/ \E verdict \in Verdicts : ChangeStatus(m, verdict)

Next == Channel \/ Reconcile \/ Others

Spec == Init /\ [][Next]_vars

\* The loop is triggered every interval and its steps end: HTTP requests carry
\* timeouts and the event loop runs what is ready.
Fairness == WF_vars(Advance(Loop)) /\ WF_vars(StartRound(Loop, Markets))

LiveSpec == Spec /\ Fairness

-----------------------------------------------------------------------------
(* Properties *)

TypeOK ==
  /\ connected \in BOOLEAN /\ reconciled \in BOOLEAN /\ allow \in BOOLEAN
  /\ stream \in {"none", "opening", "up"}
  /\ tracked \in SUBSET Markets
  /\ status \in [Markets -> Verdicts]
  /\ pause \in [Markets -> Pauses]
  /\ phase \in [Rounds -> {"idle", "refreshing", "applying", "pruning", "dead"}]
  /\ todo \in [Rounds -> SUBSET Markets]
  /\ plan \in [Rounds -> [Markets -> Plans]]
  /\ older \in [Markets -> SUBSET Rounds]

\* An open gate has been earned: the user channel is up or being subscribed
\* anew, and a round was marked since it last went down.  Connection hooks,
\* rounds and order results all write the gate, in any order.
OpenGateEarned == allow => connected /\ reconciled /\ stream # "none"

\* A pause that is not recoverable ends only by the operator, with its market,
\* or by a round that planned before it was there and applies its plan after.
StickyPauseHolds ==
  [][\A m \in Markets : Sticky(m) /\ ~Sticky(m)' =>
       \/ PauseManually(m) \/ ResumeManually(m)
       \/ m \notin tracked'
       \/ \E r \in older[m] : ApplyMarket(r, m)]_vars

\* While the connection flag stays up and the loop lives, the gate opens again
\* and again, whatever closes it: it needs no order result to reopen.
GateReopens ==
  <>[](connected /\ phase[Loop] # "dead") => []<>allow

=============================================================================
