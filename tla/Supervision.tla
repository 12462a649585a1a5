---------------------------- MODULE Supervision ----------------------------
(***************************************************************************)
(* What keeps the process going: the scheduler's jobs                      *)
(* (runtime/scheduler.py), the supervisor that decides whether trading is  *)
(* enabled and holds back the low lanes (runtime/supervisor.py), and       *)
(* start and stop (main.py).  Of the jobs the model has the two that the   *)
(* others depend on: the supervisor's refresh and the trigger of a         *)
(* reconcile round, which goes over the maintenance lane.                  *)
(*                                                                         *)
(* refresh has no await that suspends, so it is one step.  pause_job,      *)
(* resume_job, stop_job and clear_degraded have no caller in the program.  *)
(***************************************************************************)
EXTENDS Naturals, FiniteSets

CONSTANTS
    BreachThreshold,  \* slow looks in a row that count as backpressure (3 in the code)
    MaxOrders         \* bound: orders submitted

Jobs == {"refresh", "reconcile"}

VARIABLES
    sup,     \* Supervisor: phase, manual pause, degraded reason, latency breaches, readiness of db and client
    world,   \* what its snapshots show: trading queue, latency gauge, connections and outbox, age of the reconcile
    jobs,    \* Scheduler: where the loop of each job is, when it is due, whether it is enabled
    rounds,  \* the low lanes, a trigger on its way there, the maintenance loop, the startup round, the stop event
    orders   \* history: orders submitted

vars == <<sup, world, jobs, rounds, orders>>

Phases == {"reconciling", "workers_started", "trading_enabled", "degraded", "paused", "stopping",
           "stopped"}

(* p0_backpressure is lifted by refresh; what start-up reports, by nobody. *)
Lasting == {"database_unavailable", "trading_client_unavailable", "startup_reconcile_failed"}
Reasons == Lasting \cup {"none", "p0_backpressure"}

Init ==
    /\ sup = [phase |-> "reconciling", paused |-> FALSE, degraded |-> "none", breaches |-> 0,
              ready |-> FALSE]
    /\ world = [deep |-> FALSE, latency |-> "low", connected |-> FALSE, fresh |-> FALSE]
    /\ jobs = [j \in Jobs |-> [at |-> "none", due |-> "later", enabled |-> FALSE]]
    /\ rounds = [held |-> FALSE, trigger |-> "none", loop |-> "none", startup |-> FALSE, stop |-> FALSE]
    /\ orders = 0

----------------------------------------------------------------------------
(* Supervisor *)

(* _build_readiness *)
Unblocked(s, w) ==
    /\ s.ready
    /\ w.connected
    /\ w.fresh
    /\ ~s.paused
    /\ s.degraded = "none"
    /\ s.phase \in {"workers_started", "trading_enabled"}

(* automatic_trading_enabled of the snapshot *)
Enabled == Unblocked(sup, world) /\ sup.phase = "trading_enabled"

(* Mutant: a gauge counts however old it is. *)
SlowAtAnyAge == world.latency \in {"high", "old"}

(* _extract_metric_value: a gauge nobody wrote for a minute is no data. *)
SlowOfLate == world.latency = "high"

(* _should_pause_low_priority: a deep queue at once, a slow gauge when seen     *)
(* BreachThreshold times in a row.                                             *)
Breaches ==
    IF world.deep THEN BreachThreshold
    ELSE IF ~SlowOfLate THEN 0
    ELSE IF sup.breaches < BreachThreshold THEN sup.breaches + 1 ELSE BreachThreshold
Overloaded == Breaches = BreachThreshold

Judged(s) ==
    LET lifted == rounds.held /\ s.degraded = "p0_backpressure"
    IN  IF Overloaded
        THEN [s EXCEPT !.breaches = Breaches,
                       !.degraded = IF @ = "none" THEN "p0_backpressure" ELSE @,
                       !.phase = IF @ = "trading_enabled" THEN "degraded" ELSE @]
        ELSE [s EXCEPT !.breaches = Breaches,
                       !.degraded = IF lifted THEN "none" ELSE @,
                       !.phase = IF lifted /\ ~s.paused THEN "workers_started" ELSE @]

(* refresh: trading is enabled when nothing stands against it, ... *)
Refreshed(s, w) ==
    IF Unblocked(Judged(s), w) THEN [Judged(s) EXCEPT !.phase = "trading_enabled"] ELSE Judged(s)

(* ... and the low lanes are held or let go. *)
LanesAfter(r) ==
    [r EXCEPT !.held = Overloaded,
              !.trigger = IF ~Overloaded /\ @ = "retained" THEN "queued" ELSE @]

(* The operator: the phase and the reason, and nothing else. *)
Served == ~rounds.stop /\ sup.phase # "reconciling"

PauseTrading ==
    /\ Served
    /\ sup' = [sup EXCEPT !.paused = TRUE, !.phase = "paused"]
    /\ UNCHANGED <<world, jobs, rounds, orders>>

ResumeTrading ==
    /\ Served
    /\ sup' = [sup EXCEPT !.paused = FALSE, !.phase = IF @ = "paused" THEN "trading_enabled" ELSE @]
    /\ UNCHANGED <<world, jobs, rounds, orders>>

----------------------------------------------------------------------------
(* Scheduler *)

(* The loop of a job goes on until the job or the scheduler is stopped. *)
GoesOn(j) == jobs[j].enabled /\ ~rounds.stop

(* One job that runs goes on from here; the other may start. *)
Running(j) == [jobs EXCEPT ![j].at = "running"]
Rested(j) == [jobs EXCEPT ![j].at = "asleep", ![j].due = "later"]

(* _run_job_loop awake: it starts the job when due, or ends. *)
TurnLoop(j) ==
    /\ jobs[j].at = "asleep"
    /\ IF ~GoesOn(j) THEN jobs' = [jobs EXCEPT ![j].at = "none"]
       ELSE /\ jobs[j].due = "now"
            /\ jobs' = Running(j)
    /\ UNCHANGED <<sup, world, rounds, orders>>

(* The interval of a job is over. *)
Tick(j) ==
    /\ jobs[j].at = "asleep"
    /\ jobs[j].due = "later"
    /\ jobs' = [jobs EXCEPT ![j].due = "now"]
    /\ UNCHANGED <<sup, world, rounds, orders>>

(* trigger_now, when the user stream is connected and when the book of a       *)
(* position moves: given while the job runs, it is forgotten when that run ends. *)
TriggerNow(j) ==
    /\ rounds.loop # "none"
    /\ jobs' = [jobs EXCEPT ![j] = [at |-> IF @.at = "none" THEN "asleep" ELSE @.at, due |-> "now",
                                    enabled |-> TRUE]]
    /\ UNCHANGED <<sup, world, rounds, orders>>

(* The two jobs. *)
RunRefresh ==
    /\ jobs["refresh"].at = "running"
    /\ sup' = Refreshed(sup, world)
    /\ rounds' = LanesAfter(rounds)
    /\ jobs' = Rested("refresh")
    /\ UNCHANGED <<world, orders>>

PublishTrigger ==
    /\ jobs["reconcile"].at = "running"
    /\ rounds' = [rounds EXCEPT !.trigger = IF rounds.held THEN "retained" ELSE "queued"]
    /\ jobs' = Rested("reconcile")
    /\ UNCHANGED <<sup, world, orders>>

(* The maintenance loop takes the trigger; a round that raises ends the loop. *)
TakeTrigger ==
    /\ rounds.loop = "waiting"
    /\ rounds.trigger = "queued"
    /\ rounds' = [rounds EXCEPT !.trigger = "none", !.loop = "working"]
    /\ UNCHANGED <<sup, world, jobs, orders>>

EndRound(raises) ==
    /\ rounds.loop = "working"
    /\ rounds' = [rounds EXCEPT !.loop = IF raises THEN "dead" ELSE "waiting"]
    /\ world' = [world EXCEPT !.fresh = @ \/ ~raises]
    /\ UNCHANGED <<sup, jobs, orders>>

----------------------------------------------------------------------------
(* main.py: start and stop. *)

(* bootstrap_runtime: what the checks of database and client say, the loops and *)
(* jobs, the startup round in the background, the first refresh.               *)
Bootstrap(database, client) ==
    /\ sup.phase = "reconciling"
    /\ rounds.loop = "none"
    /\ sup' = Refreshed([sup EXCEPT !.phase = "workers_started", !.ready = database /\ client,
                                    !.degraded = IF ~client THEN "trading_client_unavailable"
                                                 ELSE IF ~database THEN "database_unavailable"
                                                 ELSE @], world)
    /\ jobs' = [j \in Jobs |-> [at |-> "asleep", due |-> IF j = "refresh" THEN "now" ELSE "later",
                                enabled |-> TRUE]]
    /\ rounds' = [LanesAfter(rounds) EXCEPT !.loop = "waiting", !.startup = TRUE]
    /\ UNCHANGED <<world, orders>>

(* The startup round, and a refresh after it; a failure leaves the process      *)
(* degraded for good.                                                          *)
StartupRound(fails) ==
    /\ rounds.startup
    /\ IF fails
       THEN /\ sup' = [sup EXCEPT !.degraded = "startup_reconcile_failed", !.phase = "degraded"]
            /\ rounds' = [rounds EXCEPT !.startup = FALSE]
            /\ UNCHANGED world
       ELSE /\ world' = [world EXCEPT !.fresh = TRUE]
            /\ sup' = Refreshed(sup, world')
            /\ rounds' = [LanesAfter(rounds) EXCEPT !.startup = FALSE]
    /\ UNCHANGED <<jobs, orders>>

(* shutdown_runtime: first the scheduler, ... *)
ShutdownScheduler ==
    /\ rounds.loop # "none" /\ ~rounds.stop
    /\ sup' = [sup EXCEPT !.phase = "stopping"]
    /\ jobs' = [j \in Jobs |-> [jobs[j] EXCEPT !.at = "none", !.enabled = FALSE]]
    /\ rounds' = [rounds EXCEPT !.stop = TRUE]
    /\ UNCHANGED <<world, orders>>

(* ... then the loops and the startup round. *)
CancelTasks ==
    /\ rounds.loop # "none" /\ rounds.stop
    /\ sup' = [sup EXCEPT !.phase = "stopped"]
    /\ rounds' = [rounds EXCEPT !.loop = "none", !.startup = FALSE]
    /\ UNCHANGED <<world, jobs, orders>>

----------------------------------------------------------------------------
(* What goes on beside. *)

(* The decision worker submits an order, which writes the latency gauges.  It   *)
(* asks neither the supervisor nor its snapshot.                               *)
SubmitOrder(slow) ==
    /\ rounds.loop # "none"
    /\ orders < MaxOrders
    /\ world' = [world EXCEPT !.latency = IF slow THEN "high" ELSE "low"]
    /\ orders' = orders + 1
    /\ UNCHANGED <<sup, jobs, rounds>>

World(w) ==
    /\ world' = w
    /\ UNCHANGED <<sup, jobs, rounds, orders>>

GaugeAges == world.latency = "high" /\ World([world EXCEPT !.latency = "old"])

(* A stamp lasts for minutes and a round comes every few seconds: it gets too   *)
(* old only when rounds are held up.                                           *)
ReconcileAges ==
    /\ world.fresh
    /\ rounds.held \/ rounds.loop = "dead"
    /\ World([world EXCEPT !.fresh = FALSE])

Next ==
    \/ PauseTrading \/ ResumeTrading
    \/ \E j \in Jobs : TurnLoop(j) \/ Tick(j)
    \/ TriggerNow("reconcile")
    \/ RunRefresh \/ PublishTrigger \/ TakeTrigger
    \/ \E raises \in BOOLEAN : EndRound(raises)
    \/ \E database, client \in BOOLEAN : Bootstrap(database, client)
    \/ \E fails \in BOOLEAN : StartupRound(fails)
    \/ ShutdownScheduler \/ CancelTasks
    \/ \E slow \in BOOLEAN : SubmitOrder(slow)
    \/ \E deep, connected \in BOOLEAN : World([world EXCEPT !.deep = deep, !.connected = connected])
    \/ GaugeAges \/ ReconcileAges

(* Time passes, and the loop of each job and the maintenance loop turn. *)
JobGoesOn(j) == TurnLoop(j) \/ Tick(j) \/ IF j = "refresh" THEN RunRefresh ELSE PublishTrigger
MaintenanceGoesOn == TakeTrigger \/ \E raises \in BOOLEAN : EndRound(raises)

Fairness ==
    /\ \A j \in Jobs : WF_vars(JobGoesOn(j))
    /\ WF_vars(MaintenanceGoesOn)
    /\ WF_vars(GaugeAges)

Spec == Init /\ [][Next]_vars /\ Fairness

----------------------------------------------------------------------------
TypeOK ==
    /\ sup \in [phase : Phases, paused : BOOLEAN, degraded : Reasons, breaches : 0 .. BreachThreshold,
                ready : BOOLEAN]
    /\ world \in [deep : BOOLEAN, latency : {"low", "high", "old"}, connected : BOOLEAN, fresh : BOOLEAN]
    /\ jobs \in [Jobs -> [at : {"none", "asleep", "running"}, due : {"now", "later"},
                          enabled : BOOLEAN]]
    /\ rounds \in [held : BOOLEAN, trigger : {"none", "queued", "retained"},
                   loop : {"none", "waiting", "working", "dead"}, startup : BOOLEAN, stop : BOOLEAN]
    /\ orders \in 0 .. MaxOrders

(* Nothing stands against trading that is not to pass by itself. *)
Calm ==
    /\ rounds.loop \in {"waiting", "working"} /\ ~rounds.stop
    /\ sup.ready /\ ~sup.paused /\ sup.degraded \notin Lasting
    /\ world.connected /\ ~world.deep

(* Once the load is gone, and nothing else stands against it, trading is        *)
(* enabled again: a slow order of long ago does not keep it shut, nor does the *)
(* reconcile that backpressure held up ("死循环", supervisor.py, main.py).       *)
BackpressureLifts == <>[]Calm => <>[]Enabled

(* What the operator is promised ("暂停自动交易 ... 等用户 resume 才恢复",        *)
(* operator_service.py): no order is submitted while trading is paused.        *)
PauseStopsTrading == [][orders' # orders => ~sup.paused]_vars
=============================================================================
