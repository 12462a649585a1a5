----------------------------- MODULE EntryProofs -----------------------------
(***************************************************************************)
(* Theorems about what lets an entry through and how large it is: no gate  *)
(* is open and no sticky pause lifted but for a reason, and what is sized  *)
(* can be paid, is bounded and never a sure loss.                          *)
(***************************************************************************)
EXTENDS EntryGate, EntrySizing, TLAPS

-----------------------------------------------------------------------------
(* The inductive invariant. *)

\* The gate's flag is never ahead of its two conditions, and the connection flag
\* never outlives the stream task.
GateInv ==
  /\ allow => connected /\ reconciled
  /\ connected => stream # "none"

\* A pause that a plan made in ignorance could undo is not one that it would
\* write itself.
PauseInv == \A m \in Markets : Sticky(m) => pause[m].reason # "market_not_tradable"

\* A round not known to be older than a sticky pause plans to keep it.
PlanInv ==
  \A r \in Rounds, m \in Markets :
    r \in Planned(m) /\ Sticky(m) /\ r \notin older[m] => plan[r][m] = pause[m].reason

IInv == TypeOK /\ GateInv /\ PauseInv /\ PlanInv

-----------------------------------------------------------------------------
(* Types. *)

LEMMA PauseTypes ==
  /\ NoPause \in Pauses
  /\ \A p \in Reasons, s \in Sources : Built(p, s) \in Pauses
  /\ [reason |-> "manual_pause", source |-> "MANUAL", recoverable |-> TRUE] \in Pauses
BY DEF NoPause, Pauses, Built, Reasons, Sources

\* What is planned is a plan: a pause that is there has one of the reasons.
LEMMA PlanTypes ==
  ASSUME TypeOK, NEW m \in Markets
  PROVE  PlanFor(m) \in Plans
<1>1. pause[m] \in Pauses
  BY DEF TypeOK
<1>2. CASE Sticky(m)
  BY <1>1, <1>2 DEF PlanFor, Plans, Sticky, Paused, Pauses
<1>3. CASE ~Sticky(m)
  BY <1>3 DEF PlanFor, Plans, Reasons
<1>4. QED BY <1>2, <1>3

LEMMA SetPauseType ==
  ASSUME TypeOK, NEW m \in Markets, NEW p \in Pauses, NEW W, SetPause(m, p, W)
  PROVE  pause' \in [Markets -> Pauses] /\ older' \in [Markets -> SUBSET Rounds]
<1>1. Planned(m) \ W \in SUBSET Rounds
  BY DEF Planned
<1>2. QED BY <1>1 DEF SetPause, TypeOK

LEMMA InitInv == Init => IInv
<1> SUFFICES ASSUME Init PROVE IInv
  OBVIOUS
<1>1. TypeOK
  BY PauseTypes DEF Init, TypeOK, Plans
<1>2. GateInv
  BY DEF Init, GateInv
<1>3. \A m \in Markets : ~Sticky(m)
  BY DEF Init, Sticky, Paused
<1>4. QED BY <1>1, <1>2, <1>3 DEF IInv, PauseInv, PlanInv

LEMMA ChannelType == TypeOK /\ Channel => TypeOK'
<1> SUFFICES ASSUME TypeOK, Channel PROVE TypeOK'
  OBVIOUS
<1> USE DEF TypeOK, gate, markets, rounds
<1>1. CASE Subscribe
  BY <1>1 DEF Subscribe
<1>2. CASE Connect
  BY <1>2 DEF Connect, MarkConnected
<1>3. CASE Unsubscribe \/ AuthFails \/ Reconnect \/ Disconnect
  BY <1>3 DEF Unsubscribe, AuthFails, Reconnect, Disconnect, MarkDisconnected
<1>4. QED BY <1>1, <1>2, <1>3 DEF Channel

LEMMA ReconcileType == TypeOK /\ Reconcile => TypeOK'
<1> SUFFICES ASSUME TypeOK, NEW r \in Rounds,
                    \/ Advance(r) \/ FailRound(r)
                    \/ \E scope \in SUBSET Markets \ {{}} : StartRound(r, scope)
             PROVE  TypeOK'
  BY DEF Reconcile
<1> USE DEF gate, markets, rounds
<1>1. CASE MakePlan(r)
  <2>1. plan' \in [Rounds -> [Markets -> Plans]]
    BY <1>1, PlanTypes DEF MakePlan, TypeOK, Plans
  <2>2. QED BY <1>1, <2>1 DEF MakePlan, TypeOK
<1>2. ASSUME NEW m \in Markets, ApplyMarket(r, m) PROVE TypeOK'
  <2>1. plan' \in [Rounds -> [Markets -> Plans]]
    BY <1>2 DEF ApplyMarket, TypeOK, Plans
  <2>2. pause' \in [Markets -> Pauses] /\ older' \in [Markets -> SUBSET Rounds]
    <3>1. CASE UNCHANGED pause /\ older' = [older EXCEPT ![m] = @ \ {r}]
      BY <3>1 DEF TypeOK
    <3>2. CASE ClearPause(m)
      BY <3>2, SetPauseType, PauseTypes DEF ClearPause
    <3>3. CASE plan[r][m] \in Reasons /\ SetPause(m, Built(plan[r][m], "RECONCILE"), {r})
      <4>1. Built(plan[r][m], "RECONCILE") \in Pauses
        BY <3>3, PauseTypes DEF Sources
      <4>2. QED BY <3>3, <4>1, SetPauseType
    <3>4. QED BY <1>2, <3>1, <3>2, <3>3 DEF ApplyMarket
  <2>3. QED BY <1>2, <2>1, <2>2 DEF ApplyMarket, TypeOK
<1>3. CASE MarkRound(r)
  BY <1>3 DEF MarkRound, MarkReconciled, TypeOK
<1>4. ASSUME NEW m \in Markets, PruneMarket(r, m) PROVE TypeOK'
  <2>1. pause' \in [Markets -> Pauses] /\ older' \in [Markets -> SUBSET Rounds]
    BY <1>4, SetPauseType, PauseTypes DEF PruneMarket, ClearPause
  <2>2. QED BY <1>4, <2>1 DEF PruneMarket, TypeOK
<1>5. CASE EndRound(r)
  BY <1>5 DEF EndRound, TypeOK
<1>6. CASE FailRound(r)
  BY <1>6 DEF FailRound, TypeOK, Plans
<1>7. ASSUME NEW scope \in SUBSET Markets, StartRound(r, scope) PROVE TypeOK'
  BY <1>7 DEF StartRound, TypeOK
<1>8. QED BY <1>1, <1>2, <1>3, <1>4, <1>5, <1>6, <1>7 DEF Advance

LEMMA OthersType == TypeOK /\ Others => TypeOK'
<1> SUFFICES ASSUME TypeOK, Others PROVE TypeOK'
  OBVIOUS
<1> USE DEF gate, markets, rounds
<1>1. CASE RefusedResult
  BY <1>1 DEF RefusedResult, SetAllow, CanOpen, TypeOK
<1>2. ASSUME NEW m \in Markets, RestingResult(m) PROVE TypeOK'
  <2>1. Built("unexpected_resting_order", "RISK") \in Pauses
    BY PauseTypes DEF Reasons, Sources
  <2>2. pause' \in [Markets -> Pauses] /\ older' \in [Markets -> SUBSET Rounds]
    BY <1>2, <2>1, SetPauseType DEF RestingResult
  <2>3. QED BY <1>2, <2>2 DEF RestingResult, SetAllow, TypeOK
<1>3. ASSUME NEW m \in Markets, PauseManually(m) \/ ResumeManually(m) PROVE TypeOK'
  <2>1. pause' \in [Markets -> Pauses] /\ older' \in [Markets -> SUBSET Rounds]
    BY <1>3, PauseTypes, SetPauseType DEF PauseManually, ResumeManually, ClearPause
  <2>2. QED BY <1>3, <2>1 DEF PauseManually, ResumeManually, TypeOK
<1>4. ASSUME NEW m \in Markets, Track(m) \/ Untrack(m) PROVE TypeOK'
  BY <1>4 DEF Track, Untrack, TypeOK
<1>5. ASSUME NEW m \in Markets, NEW v \in Verdicts, ChangeStatus(m, v) PROVE TypeOK'
  BY <1>5 DEF ChangeStatus, TypeOK
<1>6. QED BY <1>1, <1>2, <1>3, <1>4, <1>5 DEF Others

LEMMA TypeStep == TypeOK /\ [Next]_vars => TypeOK'
<1>1. TypeOK /\ UNCHANGED vars => TypeOK'
  BY DEF vars, gate, markets, rounds, TypeOK
<1>2. QED BY <1>1, ChannelType, ReconcileType, OthersType DEF Next

-----------------------------------------------------------------------------
(* The gate: every writer leaves its two conditions behind it. *)

LEMMA GateStep == TypeOK /\ GateInv /\ [Next]_vars => GateInv'
<1> SUFFICES ASSUME TypeOK, GateInv, [Next]_vars PROVE GateInv'
  OBVIOUS
<1> USE DEF GateInv
<1>1. CASE Channel
  <2>1. CASE Subscribe
    BY <2>1 DEF Subscribe, gate
  <2>2. CASE Connect
    BY <2>2 DEF Connect, MarkConnected
  <2>3. CASE Unsubscribe \/ AuthFails \/ Reconnect \/ Disconnect
    BY <2>3 DEF Unsubscribe, AuthFails, Reconnect, Disconnect, MarkDisconnected
  <2>4. QED BY <1>1, <2>1, <2>2, <2>3 DEF Channel
<1>2. CASE Reconcile
  <2> SUFFICES UNCHANGED stream /\ (UNCHANGED gate \/ MarkReconciled)
    BY DEF gate, MarkReconciled
  <2>1. PICK r \in Rounds : \/ Advance(r) \/ FailRound(r)
                            \/ \E scope \in SUBSET Markets \ {{}} : StartRound(r, scope)
    BY <1>2 DEF Reconcile
  <2>2. CASE Advance(r)
    BY <2>2 DEF Advance, MakePlan, MarkRound, EndRound, ApplyMarket, PruneMarket
  <2>3. CASE ~Advance(r)
    BY <2>1, <2>3 DEF FailRound, StartRound
  <2>4. QED BY <2>2, <2>3
<1>3. CASE Others
  <2> SUFFICES UNCHANGED stream /\ (UNCHANGED gate \/ SetAllow(TRUE) \/ SetAllow(FALSE))
    BY DEF gate, SetAllow, CanOpen, TypeOK
  <2>1. QED BY <1>3 DEF Others, RefusedResult, RestingResult, PauseManually,
                       ResumeManually, Track, Untrack, ChangeStatus
<1>4. CASE UNCHANGED vars
  BY <1>4 DEF vars, gate
<1>5. QED BY <1>1, <1>2, <1>3, <1>4 DEF Next

-----------------------------------------------------------------------------
(* Pauses: what one call of pause_market or resume_market does to them. *)

\* Writing the pause of one market keeps the invariants if a sticky pause is
\* never written for the reason that makes a pause recoverable, and if the
\* rounds said to know of it are through with the market.
LEMMA SetPauseKeeps ==
  ASSUME TypeOK, PauseInv, PlanInv,
         NEW m \in Markets, NEW p \in Pauses, NEW W,
         SetPause(m, p, W),
         p # NoPause /\ ~p.recoverable => p.reason # "market_not_tradable",
         \A r \in Rounds, n \in Markets : r \in Planned(n)' => r \in Planned(n),
         \A r \in Rounds : r \in Planned(m)' => r \notin W,
         \A r \in Rounds, n \in Markets : n # m => plan'[r][n] = plan[r][n]
  PROVE  PauseInv' /\ PlanInv'
<1>1. pause'[m] = p /\ older'[m] = Planned(m) \ W
  BY DEF SetPause, TypeOK
<1>2. \A n \in Markets : n # m => pause'[n] = pause[n] /\ older'[n] = older[n]
  BY DEF SetPause, TypeOK
<1>3. \A n \in Markets : n # m => (Sticky(n)' <=> Sticky(n))
  BY <1>2 DEF Sticky, Paused
<1>4. Sticky(m)' => p # NoPause /\ ~p.recoverable
  BY <1>1 DEF Sticky, Paused
<1>5. PauseInv'
  BY <1>1, <1>2, <1>3, <1>4 DEF PauseInv
<1>6. ASSUME NEW r \in Rounds, NEW n \in Markets, (r \in Planned(n))', Sticky(n)', r \notin older'[n]
      PROVE  plan'[r][n] = pause'[n].reason
  <2>1. n # m
    BY <1>1, <1>6
  <2>2. QED BY <1>2, <1>3, <1>6, <2>1 DEF PlanInv
<1>7. QED BY <1>5, <1>6 DEF PlanInv

\* Neither the pauses nor their history are touched: the plans that remain are
\* as good as they were.
LEMMA PlansShrink ==
  ASSUME PauseInv, PlanInv, UNCHANGED pause,
         \A r \in Rounds, n \in Markets :
            r \in Planned(n)' => /\ r \in Planned(n)
                                 /\ plan'[r][n] = plan[r][n]
                                 /\ r \in older[n] => r \in older'[n]
  PROVE  PauseInv' /\ PlanInv'
<1>1. \A n \in Markets : (Sticky(n)' <=> Sticky(n)) /\ pause'[n] = pause[n]
  BY DEF Sticky, Paused
<1>2. PauseInv'
  BY <1>1 DEF PauseInv
<1>3. ASSUME NEW r \in Rounds, NEW n \in Markets, (r \in Planned(n))', Sticky(n)', r \notin older'[n]
      PROVE  plan'[r][n] = pause'[n].reason
  BY <1>1, <1>3 DEF PlanInv
<1>4. QED BY <1>2, <1>3 DEF PlanInv

LEMMA ClearPauseKeeps ==
  ASSUME TypeOK, PauseInv, PlanInv, NEW m \in Markets, ClearPause(m),
         \A r \in Rounds, n \in Markets : r \in Planned(n)' => r \in Planned(n),
         \A r \in Rounds, n \in Markets : n # m => plan'[r][n] = plan[r][n]
  PROVE  PauseInv' /\ PlanInv'
<1>1. pause'[m] = NoPause
  BY DEF ClearPause, SetPause, TypeOK
<1>2. \A n \in Markets : n # m => pause'[n] = pause[n] /\ older'[n] = older[n]
  BY DEF ClearPause, SetPause, TypeOK
<1>3. ~Sticky(m)'
  BY <1>1 DEF Sticky, Paused
<1>4. \A n \in Markets : n # m => (Sticky(n)' <=> Sticky(n))
  BY <1>2 DEF Sticky, Paused
<1>5. PauseInv'
  BY <1>2, <1>3, <1>4 DEF PauseInv
<1>6. ASSUME NEW r \in Rounds, NEW n \in Markets, (r \in Planned(n))', Sticky(n)', r \notin older'[n]
      PROVE  plan'[r][n] = pause'[n].reason
  BY <1>2, <1>3, <1>4, <1>6 DEF PlanInv
<1>7. QED BY <1>5, <1>6 DEF PlanInv

LEMMA RoundPauses ==
  ASSUME TypeOK, PauseInv, PlanInv, NEW r \in Rounds, Advance(r)
  PROVE  PauseInv' /\ PlanInv'
<1>1. CASE MakePlan(r)
  <2>1. pause' = pause /\ \A n \in Markets : pause'[n] = pause[n] /\ (Sticky(n)' <=> Sticky(n))
    BY <1>1 DEF MakePlan, Sticky, Paused
  <2>2. PauseInv'
    BY <2>1 DEF PauseInv
  <2>3. ASSUME NEW q \in Rounds, NEW n \in Markets, (q \in Planned(n))', Sticky(n)', q \notin older'[n]
        PROVE  plan'[q][n] = pause'[n].reason
    <3>1. CASE q = r
      <4>1. n \in todo'[r]
        BY <2>3, <3>1 DEF Planned
      <4>2. plan'[r][n] = PlanFor(n)
        BY <1>1, <4>1 DEF MakePlan, TypeOK
      <4>3. QED BY <2>1, <2>3, <3>1, <4>2 DEF PlanFor
    <3>2. CASE q # r
      <4>1. q \in Planned(n) /\ plan'[q][n] = plan[q][n] /\ q \notin older[n]
        BY <1>1, <2>3, <3>2 DEF MakePlan, Planned, TypeOK
      <4>2. QED BY <2>1, <2>3, <4>1 DEF PlanInv
    <3>3. QED BY <3>1, <3>2
  <2>4. QED BY <2>2, <2>3 DEF PlanInv
<1>2. ASSUME NEW m \in Markets, ApplyMarket(r, m) PROVE PauseInv' /\ PlanInv'
  <2>1. \A q \in Rounds, n \in Markets :
          q \in Planned(n)' => q \in Planned(n) /\ (n = m => q # r)
    BY <1>2 DEF ApplyMarket, Planned, TypeOK
  <2>2. \A q \in Rounds, n \in Markets : q # r \/ n # m => plan'[q][n] = plan[q][n]
    BY <1>2 DEF ApplyMarket, TypeOK
  <2>3. CASE UNCHANGED pause /\ older' = [older EXCEPT ![m] = @ \ {r}]
    <3>1. \A q \in Rounds, n \in Markets : (q # r \/ n # m) /\ q \in older[n] => q \in older'[n]
      BY <2>3 DEF TypeOK
    <3>2. QED BY <2>1, <2>2, <2>3, <3>1, PlansShrink
  <2>4. CASE ClearPause(m)
    <3>1. \A q \in Rounds : q \in Planned(m)' => q \in Planned(m)
      BY <2>1
    <3>2. QED BY <2>1, <2>2, <2>4, ClearPauseKeeps
  <2>5. CASE plan[r][m] \in Reasons /\ SetPause(m, Built(plan[r][m], "RECONCILE"), {r})
    <3>1. Built(plan[r][m], "RECONCILE") \in Pauses
      BY <2>5, PauseTypes DEF Sources
    <3>2. LET p == Built(plan[r][m], "RECONCILE")
          IN  ~p.recoverable => p.reason # "market_not_tradable"
      BY DEF Built
    <3>3. \A q \in Rounds : q \in Planned(m)' => q \notin {r}
      BY <2>1
    <3>4. QED BY <2>1, <2>2, <2>5, <3>1, <3>2, <3>3, SetPauseKeeps
  <2>6. QED BY <1>2, <2>3, <2>4, <2>5 DEF ApplyMarket
<1>3. CASE MarkRound(r)
  BY <1>3, PlansShrink DEF MarkRound, Planned, TypeOK
<1>4. ASSUME NEW m \in Markets, PruneMarket(r, m) PROVE PauseInv' /\ PlanInv'
  <2>1. \A q \in Rounds, n \in Markets : q \in Planned(n)' => q \in Planned(n)
    BY <1>4 DEF PruneMarket, Planned, TypeOK
  <2>2. UNCHANGED plan /\ ClearPause(m)
    BY <1>4 DEF PruneMarket
  <2>3. QED BY <2>1, <2>2, ClearPauseKeeps
<1>5. CASE EndRound(r)
  BY <1>5, PlansShrink DEF EndRound, Planned, TypeOK
<1>6. QED BY <1>1, <1>2, <1>3, <1>4, <1>5 DEF Advance

LEMMA PausesStep == TypeOK /\ PauseInv /\ PlanInv /\ [Next]_vars => PauseInv' /\ PlanInv'
<1> SUFFICES ASSUME TypeOK, PauseInv, PlanInv, [Next]_vars PROVE PauseInv' /\ PlanInv'
  OBVIOUS
<1>1. ASSUME UNCHANGED <<pause, phase, todo, plan, older>> PROVE PauseInv' /\ PlanInv'
  BY <1>1, PlansShrink DEF Planned
<1>2. CASE Channel
  BY <1>1, <1>2 DEF Channel, Subscribe, Unsubscribe, AuthFails, Connect, Reconnect,
                    Disconnect, rounds
<1>3. CASE Reconcile
  <2>1. PICK r \in Rounds : \/ Advance(r) \/ FailRound(r)
                            \/ \E scope \in SUBSET Markets \ {{}} : StartRound(r, scope)
    BY <1>3 DEF Reconcile
  <2>2. CASE FailRound(r)
    BY <2>2, PlansShrink DEF FailRound, Planned, TypeOK
  <2>3. ASSUME NEW scope \in SUBSET Markets, StartRound(r, scope) PROVE PauseInv' /\ PlanInv'
    BY <2>3, PlansShrink DEF StartRound, Planned, TypeOK
  <2>4. QED BY <2>1, <2>2, <2>3, RoundPauses
<1>4. CASE Others
  <2>1. \A r \in Rounds, n \in Markets :
          UNCHANGED rounds => plan' = plan /\ (r \in Planned(n)' <=> r \in Planned(n))
    BY DEF Planned, rounds
  <2>2. ASSUME NEW m \in Markets, RestingResult(m) PROVE PauseInv' /\ PlanInv'
    <3>1. Built("unexpected_resting_order", "RISK") \in Pauses
      BY PauseTypes DEF Reasons, Sources
    <3>2. Built("unexpected_resting_order", "RISK").reason # "market_not_tradable"
      BY DEF Built
    <3>3. UNCHANGED rounds /\ SetPause(m, Built("unexpected_resting_order", "RISK"), {})
      BY <2>2 DEF RestingResult
    <3>4. QED BY <2>1, <3>1, <3>2, <3>3, SetPauseKeeps
  <2>3. ASSUME NEW m \in Markets, PauseManually(m) PROVE PauseInv' /\ PlanInv'
    <3> DEFINE manual == [reason |-> "manual_pause", source |-> "MANUAL", recoverable |-> TRUE]
    <3>1. manual \in Pauses /\ manual.recoverable
      BY PauseTypes
    <3>2. UNCHANGED rounds /\ SetPause(m, manual, {})
      BY <2>3 DEF PauseManually
    <3> HIDE DEF manual
    <3>3. QED BY <2>1, <3>1, <3>2, SetPauseKeeps
  <2>4. ASSUME NEW m \in Markets, ResumeManually(m) PROVE PauseInv' /\ PlanInv'
    <3>1. UNCHANGED rounds /\ ClearPause(m)
      BY <2>4 DEF ResumeManually
    <3>2. QED BY <2>1, <3>1, ClearPauseKeeps
  <2>5. CASE \/ RefusedResult
             \/ \E m \in Markets : \/ Track(m) \/ Untrack(m)
                                   \/ \E v \in Verdicts : ChangeStatus(m, v)
    BY <1>1, <2>5 DEF RefusedResult, Track, Untrack, ChangeStatus, rounds
  <2>6. QED BY <1>4, <2>2, <2>3, <2>4, <2>5 DEF Others
<1>5. CASE UNCHANGED vars
  BY <1>1, <1>5 DEF vars, rounds
<1>6. QED BY <1>2, <1>3, <1>4, <1>5 DEF Next

-----------------------------------------------------------------------------
(* Theorems. *)

\* The inductive invariant holds in every reachable state.
THEOREM Invariance == Spec => []IInv
<1>1. IInv /\ [Next]_vars => IInv'
  BY TypeStep, GateStep, PausesStep DEF IInv
<1>2. QED BY InitInv, <1>1, PTL DEF Spec

\* AccountStateStore and the callers modelled here keep their types.
THEOREM TypeCorrect == Spec => []TypeOK
<1>1. IInv => TypeOK
  BY DEF IInv
<1>2. QED BY Invariance, <1>1, PTL

\* allow_new_entries is TRUE only with the user channel's flag, a reconcile mark
\* and a stream task behind it, whoever wrote it last.
THEOREM GateIsEarned == Spec => []OpenGateEarned
<1>1. IInv => OpenGateEarned
  BY DEF IInv, GateInv, OpenGateEarned
<1>2. QED BY Invariance, <1>1, PTL

\* A pause built for another reason, or by another source, is sticky.
LEMMA BuiltSticky ==
  ASSUME NEW p, NEW s, p # "market_not_tradable" \/ s # "RECONCILE"
  PROVE  ~Built(p, s).recoverable /\ Built(p, s) # NoPause
<1>1. Built(p, s).recoverable <=> s = "RECONCILE" /\ p = "market_not_tradable"
  BY DEF Built
<1>2. NoPause.recoverable
  BY DEF NoPause
<1>3. QED BY <1>1, <1>2

\* No step but the operator's, a prune or the application of an older plan turns
\* a pause that is not recoverable into one that is, or into none.
LEMMA StickyStep ==
  ASSUME IInv, [Next]_vars, NEW m \in Markets, Sticky(m), ~Sticky(m)'
  PROVE  \/ PauseManually(m) \/ ResumeManually(m)
         \/ m \notin tracked'
         \/ \E r \in older[m] : ApplyMarket(r, m)
<1>1. pause'[m] # pause[m]
  BY DEF Sticky, Paused
<1>2. pause[m] \in Pauses /\ pause[m] # NoPause /\ ~pause[m].recoverable
  BY DEF IInv, TypeOK, Sticky, Paused
<1>3. CASE Reconcile
  <2>1. PICK r \in Rounds : \/ Advance(r) \/ FailRound(r)
                            \/ \E scope \in SUBSET Markets \ {{}} : StartRound(r, scope)
    BY <1>3 DEF Reconcile
  <2>2. PICK n \in Markets : ApplyMarket(r, n) \/ PruneMarket(r, n)
    BY <1>1, <2>1 DEF Advance, MakePlan, MarkRound, EndRound, FailRound, StartRound
  <2>3. n = m
    BY <1>1, <2>2 DEF ApplyMarket, PruneMarket, ClearPause, SetPause, IInv, TypeOK
  <2>4. CASE PruneMarket(r, n)
    BY <2>3, <2>4 DEF PruneMarket
  <2>5. CASE ApplyMarket(r, n)
    <3>1. SUFFICES ASSUME r \notin older[m] PROVE FALSE
      BY <2>3, <2>5
    <3>2. r \in Planned(m)
      BY <2>3, <2>5 DEF ApplyMarket, Planned
    <3>3. plan[r][m] = pause[m].reason /\ pause[m].reason # "market_not_tradable"
      BY <3>1, <3>2 DEF IInv, PauseInv, PlanInv
    <3>4. pause[m].reason \in Reasons
      BY <1>2 DEF Pauses
    <3>5. SetPause(m, Built(plan[r][m], "RECONCILE"), {r})
      BY <1>1, <2>3, <2>5, <3>3, <3>4 DEF ApplyMarket, Reasons
    <3>6. pause'[m] = Built(plan[r][m], "RECONCILE")
      BY <3>5 DEF SetPause, IInv, TypeOK
    <3>7. ~pause'[m].recoverable /\ pause'[m] # NoPause
      BY <3>3, <3>6, BuiltSticky
    <3>8. QED BY <3>7 DEF Sticky, Paused
  <2>6. QED BY <2>2, <2>4, <2>5
<1>4. CASE Others
  <2>1. PICK n \in Markets : RestingResult(n) \/ PauseManually(n) \/ ResumeManually(n)
    BY <1>1, <1>4 DEF Others, RefusedResult, Track, Untrack, ChangeStatus
  <2>2. n = m
    BY <1>1, <2>1 DEF RestingResult, PauseManually, ResumeManually, ClearPause, SetPause,
                      IInv, TypeOK
  <2>3. CASE RestingResult(n)
    <3>1. pause'[m] = Built("unexpected_resting_order", "RISK")
      BY <2>2, <2>3 DEF RestingResult, SetPause, IInv, TypeOK
    <3>2. QED BY <3>1, BuiltSticky DEF Sticky, Paused
  <2>4. QED BY <2>1, <2>2, <2>3
<1>5. CASE Channel \/ UNCHANGED vars
  BY <1>1, <1>5 DEF Channel, Subscribe, Unsubscribe, AuthFails, Connect, Reconnect,
                    Disconnect, vars
<1>6. QED BY <1>3, <1>4, <1>5 DEF Next

\* A pause that is not recoverable outlives every reconcile that knew of it.
THEOREM StickyPausesHold == Spec => StickyPauseHolds
<1>1. IInv /\ [Next]_vars =>
        [\A m \in Markets : Sticky(m) /\ ~Sticky(m)' =>
             \/ PauseManually(m) \/ ResumeManually(m)
             \/ m \notin tracked'
             \/ \E r \in older[m] : ApplyMarket(r, m)]_vars
  BY StickyStep
<1>2. QED BY Invariance, <1>1, PTL DEF Spec, StickyPauseHolds

----------------------------------------------------------------------------
(* Entry sizing: arithmetic. *)

LEMMA MaxOfTwo ==
    ASSUME NEW a \in Int, NEW b \in Int
    PROVE  /\ Max({a, b}) = IF a >= b THEN a ELSE b
           /\ Min({a, b}) = IF a <= b THEN a ELSE b
BY DEF Max, Min

LEMMA MinOfThree ==
    ASSUME NEW a \in Int, NEW b \in Int, NEW c \in Int
    PROVE  /\ Min({a, b, c}) \in Int
           /\ Min({a, b, c}) <= a /\ Min({a, b, c}) <= b /\ Min({a, b, c}) <= c
<1>1. \E x \in {a, b, c} : \A y \in {a, b, c} : x <= y
    OBVIOUS
<1>2. Min({a, b, c}) \in {a, b, c} /\ \A y \in {a, b, c} : Min({a, b, c}) <= y
    BY <1>1 DEF Min
<1> QED BY <1>2

LEMMA DivBelow ==
    ASSUME NEW a \in Nat, NEW d \in Nat \ {0}
    PROVE  a \div d \in Nat /\ d * (a \div d) <= a
OBVIOUS

LEMMA AtLeast0Is ==
    ASSUME NEW n \in Int
    PROVE  AtLeast0(n) \in Nat /\ n <= AtLeast0(n) /\ (0 <= n => AtLeast0(n) = n) /\ (n < 0 => AtLeast0(n) = 0)
BY MaxOfTwo DEF AtLeast0

LEMMA TimesMonotone ==
    ASSUME NEW a \in Nat, NEW b \in Nat, NEW c \in Nat, a <= b
    PROVE  a * c <= b * c /\ a * c \in Nat
OBVIOUS

\* The fee is less than the money it is taken of.
LEMMA FeeBelow ==
    ASSUME NEW stake \in Nat, NEW ask \in 1 .. 99
    PROVE  FeeOf(stake, ask) \in Nat /\ FeeOf(stake, ask) <= stake /\ (stake > 0 => FeeOf(stake, ask) < stake)
<1> DEFINE k == FeeRate * (100 - ask)
<1>1. FeeRate \in Nat /\ FeeRate <= 1000 /\ 100 - ask \in Nat /\ 100 - ask <= 99
    BY SizingAssumption
<1>2. k \in Nat /\ k <= 1000 * (100 - ask)
    BY <1>1, TimesMonotone
<1>3. k <= 99000
    BY <1>1, <1>2
<1>4. stake * FeeRate * (100 - ask) = k * stake
    BY <1>1
<1> HIDE DEF k
<1>5. k * stake <= 99000 * stake /\ k * stake \in Nat
    BY <1>2, <1>3, TimesMonotone
<1>6. FeeOf(stake, ask) = (k * stake) \div 100000
    BY <1>4 DEF FeeOf
<1> DEFINE total == k * stake
<1>7. total \in Nat /\ total <= 99000 * stake /\ FeeOf(stake, ask) = total \div 100000
    BY <1>5, <1>6
<1> HIDE DEF total
<1> QED BY <1>7

----------------------------------------------------------------------------
(* Entry sizing: Kelly. *)

\* What a stake that is named is good for, sized on so much money.
Good(stake, money, offer, p) ==
    /\ stake \in Nat
    /\ 10 * stake <= money
    /\ stake > 0 => /\ Worth(offer, p)
                    /\ stake >= MinShares * offer.ask
                    /\ stake <= offer.depth

LEMMA EdgeType ==
    ASSUME NEW ask \in 1 .. 99, NEW p \in Int
    PROVE  /\ EdgeNet(ask, p) \in Int
           /\ EdgeNet(ask, p) <= 100 * (p - ask)
<1>1. FeeRate \in Nat /\ 100 - ask \in Nat /\ ask \in Nat
    BY SizingAssumption
<1> DEFINE k == FeeRate * ask * (100 - ask)
<1>2. k \in Nat
    BY <1>1
<1> HIDE DEF k
<1>3. k \div 1000 \in Nat
    BY <1>2
<1>4. EdgeNet(ask, p) = 100 * (p - ask) - k \div 1000
    BY DEF EdgeNet, k
<1> QED BY <1>3, <1>4

\* A stake is bought only at a price two percents below what is believed.
LEMMA WorthIsBelow ==
    ASSUME NEW offer \in Offers, NEW p \in Int, Worth(offer, p)
    PROVE  offer.ask \in 1 .. 99 /\ offer.ask + 2 <= p
<1>1. offer.ask \in 1 .. 99 /\ EdgeNet(offer.ask, p) >= 200
    BY DEF Worth, MinEdge
<1>2. EdgeNet(offer.ask, p) \in Int /\ EdgeNet(offer.ask, p) <= 100 * (p - offer.ask)
    BY <1>1, EdgeType
<1> QED BY <1>1, <1>2

LEMMA RawType ==
    ASSUME NEW bankroll \in Nat, NEW ask \in 1 .. 99, NEW p \in Int
    PROVE  RawStake(bankroll, ask, p) \in Int
<1>1. EdgeNet(ask, p) \in Int
    BY EdgeType
<1> DEFINE a == bankroll * 7 * EdgeNet(ask, p)
           d == 40 * 100 * (100 - ask)
<1>2. a \in Int /\ d \in Nat \ {0}
    BY <1>1
<1>3. RawStake(bankroll, ask, p) = a \div d
    BY DEF RawStake
<1> HIDE DEF a, d
<1> QED BY <1>2, <1>3

LEMMA KellyIsGood ==
    ASSUME NEW money \in Nat, NEW offer \in Offers, NEW p \in Int
    PROVE  Good(KellyStake(money, offer, p), money, offer, p)
<1> DEFINE sized == Min({RawStake(money, offer.ask, p), CapOf(money), offer.depth})
           least == Least(offer)
           stake == KellyStake(money, offer, p)
<1>1. offer.ask \in Nat /\ offer.depth \in Nat /\ MinShares \in Nat
    BY SizingAssumption
<1>2. CapOf(money) \in Nat /\ 10 * CapOf(money) <= money
    BY DivBelow DEF CapOf
<1>3. stake = IF money <= 0 \/ ~Worth(offer, p) THEN 0
              ELSE IF sized >= least THEN sized
              ELSE IF least <= RoundUpCeiling(money, offer) THEN least
              ELSE 0
    BY DEF KellyStake
<1>4. MinShares * offer.ask \in Nat
    BY <1>1
<1>5. least \in Nat /\ least >= 100 /\ least >= MinShares * offer.ask
    BY <1>4, MaxOfTwo DEF Least, MinStake
<1>6. RoundUpCeiling(money, offer) <= CapOf(money) /\ RoundUpCeiling(money, offer) <= offer.depth
      /\ RoundUpCeiling(money, offer) \in Int
    <2> DEFINE cap == CapOf(money)
               depth == offer.depth
    <2>1. cap \in Int /\ depth \in Int
        BY <1>1, <1>2
    <2>2. RoundUpCeiling(money, offer) = Min({cap, depth})
        BY DEF RoundUpCeiling
    <2> HIDE DEF cap, depth
    <2>3. Min({cap, depth}) = IF cap <= depth THEN cap ELSE depth
        BY <2>1, MaxOfTwo
    <2>4. Min({cap, depth}) \in Int /\ Min({cap, depth}) <= cap /\ Min({cap, depth}) <= depth
        BY <2>1, <2>3
    <2> QED BY <2>2, <2>4 DEF cap, depth
<1>7. CASE ~Worth(offer, p) \/ money <= 0
    BY <1>3, <1>7 DEF Good
<1>8. CASE Worth(offer, p) /\ money > 0
    <2>1. offer.ask \in 1 .. 99
        BY <1>8 DEF Worth
    <2>2. sized \in Int /\ sized <= CapOf(money) /\ sized <= offer.depth
        <3>1. RawStake(money, offer.ask, p) \in Int /\ CapOf(money) \in Int /\ offer.depth \in Int
            <4> DEFINE ask == offer.ask
            <4>1. ask \in 1 .. 99
                BY <2>1
            <4> HIDE DEF ask
            <4>2. RawStake(money, ask, p) \in Int
                BY <4>1, RawType
            <4> QED BY <1>1, <1>2, <4>2 DEF ask
        <3> DEFINE raw == RawStake(money, offer.ask, p)
                   cap == CapOf(money)
                   depth == offer.depth
        <3>2. sized = Min({raw, cap, depth})
            OBVIOUS
        <3> HIDE DEF sized, raw, cap, depth
        <3>3. sized \in Int /\ sized <= cap /\ sized <= depth
            BY <3>1, <3>2, MinOfThree DEF raw, cap, depth
        <3> QED BY <3>3 DEF cap, depth
    <2> HIDE DEF sized, least
    <2>3. \/ stake = sized /\ sized >= least
          \/ stake = least /\ least <= RoundUpCeiling(money, offer)
          \/ stake = 0
        BY <1>3, <1>8
    <2>4. stake \in Nat /\ stake <= CapOf(money)
        BY <1>2, <1>5, <1>6, <2>2, <2>3
    <2>5. stake > 0 => stake >= MinShares * offer.ask /\ stake <= offer.depth
        BY <1>1, <1>4, <1>5, <1>6, <2>2, <2>3
    <2>6. 10 * stake <= money
        BY <1>2, <2>4
    <2> HIDE DEF stake
    <2> QED BY <1>8, <2>4, <2>5, <2>6 DEF Good, stake
<1> QED BY <1>7, <1>8

----------------------------------------------------------------------------
(* Entry sizing: what the probabilities are. *)

LEMMA ClampedType ==
    ASSUME NEW p \in Int
    PROVE  /\ Clamped(p) \in 1 .. 99
           /\ Clamped(p) <= p \/ Clamped(p) = 1
<1>1. Min({99, p}) = IF 99 <= p THEN 99 ELSE p
    BY MaxOfTwo
<1>2. Min({99, p}) \in Int
    BY <1>1
<1>3. Max({1, Min({99, p})}) = IF 1 >= Min({99, p}) THEN 1 ELSE Min({99, p})
    BY <1>2, MaxOfTwo
<1> QED BY <1>1, <1>2, <1>3 DEF Clamped

LEMMA LineTyped ==
    ASSUME NEW line \in MarketLines
    PROVE  /\ line.home \in Nat /\ line.away \in Nat /\ line.draw \in Nat
           /\ line.home + line.away + line.draw \in Nat \ {0}
           /\ \A s \in Sides : line[s] \in Nat
BY SizingAssumption DEF Sides

LEMMA ForecastTyped ==
    ASSUME NEW forecast \in Forecasts
    PROVE  \A s \in Sides : forecast[s] \in 0 .. 100
BY SizingAssumption DEF Sides

LEMMA FairType ==
    ASSUME NEW line \in MarketLines, NEW s \in Sides
    PROVE  FairOf(line, s) \in Nat
<1> DEFINE total == line.home + line.away + line.draw
           a == 100 * line[s]
<1>1. total \in Nat \ {0} /\ a \in Nat
    BY LineTyped
<1>2. FairOf(line, s) = a \div total
    BY DEF FairOf
<1> HIDE DEF a, total
<1> QED BY <1>1, <1>2

\* The shares of the two sides are no more than the whole.
LEMMA FairAddsUp ==
    ASSUME NEW line \in MarketLines
    PROVE  FairOf(line, "home") + FairOf(line, "away") <= 100
<1> DEFINE total == line.home + line.away + line.draw
           a == 100 * line.home
           b == 100 * line.away
           fa == FairOf(line, "home")
           fb == FairOf(line, "away")
<1>1. total \in Nat \ {0} /\ a \in Nat /\ b \in Nat /\ a + b <= 100 * total
    BY LineTyped
<1>2. fa = a \div total /\ fb = b \div total
    BY DEF FairOf
<1> HIDE DEF a, b, total, fa, fb
<1>3. fa \in Nat /\ fb \in Nat /\ total * fa <= a /\ total * fb <= b
    BY <1>1, <1>2, DivBelow
<1>4. total * (fa + fb) <= 100 * total
    <2>1. total * (fa + fb) = total * fa + total * fb
        BY <1>1, <1>3
    <2>2. total * fa \in Nat /\ total * fb \in Nat
        BY <1>1, <1>3
    <2> QED BY <1>1, <1>3, <2>1, <2>2
<1>5. ASSUME fa + fb >= 101 PROVE FALSE
    <2>1. 101 * total <= (fa + fb) * total
        BY <1>1, <1>3, <1>5, TimesMonotone
    <2> QED BY <1>1, <1>3, <1>4, <2>1
<1>6. fa + fb <= 100
    BY <1>3, <1>5
<1> QED BY <1>6 DEF fa, fb

LEMMA MaxOfOne ==
    ASSUME NEW a \in Int
    PROVE  Max({a}) = a
BY DEF Max

LEMMA SourceTyped ==
    ASSUME NEW line \in MarketLines \cup {Nothing}, NEW spread \in MarketLines \cup {Nothing},
           NEW s \in Sides
    PROVE  /\ SourceOf(line, spread, s) \in MarketLines \cup {Nothing}
           /\ SourceOf(line, spread, s) # Nothing =>
                 /\ FairOf(SourceOf(line, spread, s), s) \in Nat
                 /\ SourceOf(line, spread, s)[s] \in Nat
<1>1. SourceOf(line, spread, s) \in MarketLines \cup {Nothing}
    BY DEF SourceOf
<1> QED BY <1>1, FairType, LineTyped

\* What is believed is said by a line or by a formula, and by which of them if one is silent.
LEMMA BelievedIs ==
    ASSUME NEW line \in MarketLines \cup {Nothing}, NEW spread \in MarketLines \cup {Nothing},
           NEW forecast \in Forecasts, NEW s \in Sides,
           Believed(line, spread, forecast, s) # Nothing
    PROVE  /\ Believed(line, spread, forecast, s) \in Int
           /\ SourceOf(line, spread, s) = Nothing =>
                 Believed(line, spread, forecast, s) = Clamped(forecast[s])
           /\ forecast[s] = 0 =>
                 /\ SourceOf(line, spread, s) # Nothing
                 /\ SourceOf(line, spread, s).fair =>
                       Believed(line, spread, forecast, s) = Clamped(FairOf(SourceOf(line, spread, s), s))
<1> DEFINE g == GoalserveSays(line, spread, s)
           f == MathSays(forecast, s)
           source == SourceOf(line, spread, s)
           q == IF source.fair THEN FairOf(source, s) ELSE source[s]
<1>1. Believed(line, spread, forecast, s) = IF g \cup f = {} THEN Nothing ELSE Clamped(Max(g \cup f))
    BY DEF Believed
<1>2. g \cup f # {} /\ Believed(line, spread, forecast, s) = Clamped(Max(g \cup f))
    BY <1>1
<1>3. f = IF forecast[s] = 0 THEN {} ELSE {forecast[s]}
    BY DEF MathSays
<1>4. g = IF source = Nothing THEN {} ELSE {q}
    BY DEF GoalserveSays
<1>5. forecast[s] \in Int /\ (source # Nothing => q \in Int /\ (source.fair => q = FairOf(source, s)))
    BY ForecastTyped, SourceTyped
<1> HIDE DEF f, g, source, q
<1>7. CASE source = Nothing
    <2>1. forecast[s] # 0 /\ g \cup f = {forecast[s]}
        BY <1>2, <1>3, <1>4, <1>7
    <2>2. Believed(line, spread, forecast, s) = Clamped(forecast[s])
        BY <1>2, <1>5, <2>1, MaxOfOne
    <2>3. Believed(line, spread, forecast, s) \in Int
        BY <1>5, <2>2, ClampedType
    <2> QED BY <2>1, <2>2, <2>3, <1>7 DEF source
<1>8. CASE source # Nothing
    <2>1. g = {q} /\ q \in Int
        BY <1>4, <1>5, <1>8
    <2>2. CASE forecast[s] = 0
        <3>1. g \cup f = {q}
            BY <1>3, <2>1, <2>2
        <3>2. Believed(line, spread, forecast, s) = Clamped(q)
            BY <1>2, <2>1, <3>1, MaxOfOne
        <3>3. Believed(line, spread, forecast, s) \in Int
            BY <2>1, <3>2, ClampedType
        <3> QED BY <1>5, <1>8, <3>2, <3>3 DEF source
    <2>3. CASE forecast[s] # 0
        <3>1. g \cup f = {q, forecast[s]}
            BY <1>3, <2>1, <2>3
        <3>2. Max(g \cup f) \in Int
            BY <1>5, <2>1, <3>1, MaxOfTwo
        <3>3. Believed(line, spread, forecast, s) \in Int
            BY <1>2, <3>2, ClampedType
        <3> QED BY <1>8, <2>3, <3>3 DEF source
    <2> QED BY <2>2, <2>3
<1> QED BY <1>7, <1>8

----------------------------------------------------------------------------
(* Entry sizing: the plan. *)

AccountTyped ==
    account \in [cash : Int, cost : [Sides -> Nat], shares : [Sides -> Nat], onSale : SUBSET Sides]

LEMMA BankrollType ==
    ASSUME AccountTyped
    PROVE  /\ Bankroll \in Nat /\ Bankroll <= Budget
           /\ Bankroll <= account.cash \/ Bankroll = 0
<1> DEFINE cash == account.cash
           least == Min({cash, Budget})
<1>1. cash \in Int /\ Budget \in Nat
    BY SizingAssumption DEF AccountTyped
<1> HIDE DEF cash
<1>2. least = IF cash <= Budget THEN cash ELSE Budget
    BY <1>1, MaxOfTwo
<1>3. Bankroll = AtLeast0(least)
    BY DEF Bankroll, cash
<1> HIDE DEF least
<1>4. least \in Int /\ least <= cash /\ least <= Budget
    BY <1>1, <1>2
<1>5. AtLeast0(least) \in Nat /\ (0 <= least => AtLeast0(least) = least) /\ (least < 0 => AtLeast0(least) = 0)
    BY <1>4, AtLeast0Is
<1> QED BY <1>1, <1>3, <1>4, <1>5 DEF cash

\* Stakes of a plan are good, each on money the account has, and both are for what is believed.
LEMMA PlanIsGood ==
    ASSUME AccountTyped,
           NEW offers \in [Sides -> Offers \cup {Nothing}],
           NEW line \in MarketLines \cup {Nothing}, NEW spread \in MarketLines \cup {Nothing},
           NEW forecast \in Forecasts, NEW s \in Sides
    PROVE  /\ PlanOf(offers, line, spread, forecast) \in [Sides -> Nat]
           /\ 10 * PlanOf(offers, line, spread, forecast)[s] <= Bankroll
           /\ PlanOf(offers, line, spread, forecast)[s] > 0 =>
                 /\ offers[s] \in Offers
                 /\ Believed(line, spread, forecast, s) \in Int /\ Believed(line, spread, forecast, s) # Nothing
                 /\ Worth(offers[s], Believed(line, spread, forecast, s))
                 /\ PlanOf(offers, line, spread, forecast)[s] >= MinShares * offers[s].ask
                 /\ PlanOf(offers, line, spread, forecast)[s] <= offers[s].depth
<1> DEFINE stakes == PlanOf(offers, line, spread, forecast)
           p == [t \in Priced(offers) |-> Probability(offers, line, spread, forecast, t)]
           able == {t \in Priced(offers) : p[t] # Nothing}
           tied(t) == IF t \in Priced(offers) THEN Exposure(t) ELSE 0
           left == AtLeast0(Bankroll - (tied("home") + tied("away")))
           alone(t) == KellyStake(left, offers[t], p[t])
           rest(t) == AtLeast0(left - alone(Other(t)))
           next(t) == KellyStake(rest(t), offers[t], p[t])
<1>1. stakes = [t \in Sides |->
                IF t \notin able THEN 0
                ELSE IF Other(t) \in able /\ ServedBefore(Other(t), t, offers, p) THEN next(t)
                ELSE alone(t)]
    BY DEF PlanOf
<1>2. Bankroll \in Nat
    BY BankrollType
<1>3. \A t \in Sides : Exposure(t) \in Nat
    <2>1. \A t \in Sides : account.cost[t] \in Nat
        BY DEF AccountTyped
    <2> QED BY <2>1 DEF Exposure
<1>4. left \in Nat /\ left <= Bankroll
    <2> DEFINE used == tied("home") + tied("away")
    <2>1. used \in Nat
        BY <1>3 DEF Sides
    <2>2. left = AtLeast0(Bankroll - used)
        OBVIOUS
    <2> HIDE DEF used
    <2>3. Bankroll - used \in Int /\ Bankroll - used <= Bankroll
        BY <1>2, <2>1
    <2> DEFINE d == Bankroll - used
    <2> HIDE DEF d
    <2>4. AtLeast0(d) \in Nat /\ (0 <= d => AtLeast0(d) = d) /\ (d < 0 => AtLeast0(d) = 0)
        BY <2>3, AtLeast0Is DEF d
    <2> QED BY <1>2, <2>2, <2>3, <2>4 DEF d
<1> HIDE DEF left
<1>5. ASSUME NEW t \in able
      PROVE  /\ offers[t] \in Offers /\ p[t] = Believed(line, spread, forecast, t)
            /\ p[t] \in Int /\ p[t] # Nothing
    <2>1. t \in Priced(offers) /\ t \in Sides /\ offers[t] \in Offers
        BY DEF Priced
    <2>2. p[t] = Probability(offers, line, spread, forecast, t) /\ p[t] # Nothing
        BY <2>1
    <2>3. p[t] = Believed(line, spread, forecast, t)
        BY <2>2 DEF Probability
    <2> QED BY <2>1, <2>2, <2>3, BelievedIs
<1> HIDE DEF p, able
<1>6. ASSUME NEW t \in able
      PROVE  Good(alone(t), left, offers[t], Believed(line, spread, forecast, t))
    BY <1>4, <1>5, KellyIsGood
<1>7. ASSUME NEW t \in able, Other(t) \in able
      PROVE  Good(next(t), left, offers[t], Believed(line, spread, forecast, t))
    <2>1. alone(Other(t)) \in Nat
        BY <1>6, <1>7 DEF Good
    <2> DEFINE d == left - alone(Other(t))
    <2>2. d \in Int /\ d <= left
        BY <1>4, <2>1
    <2>3. rest(t) = AtLeast0(d)
        OBVIOUS
    <2> HIDE DEF d
    <2>4. rest(t) \in Nat /\ rest(t) <= left
        <3>1. AtLeast0(d) \in Nat /\ (0 <= d => AtLeast0(d) = d) /\ (d < 0 => AtLeast0(d) = 0)
            BY <2>2, AtLeast0Is
        <3> QED BY <1>4, <2>2, <2>3, <3>1
    <2>5. Good(next(t), rest(t), offers[t], Believed(line, spread, forecast, t))
        <3> HIDE DEF rest
        <3> QED BY <1>5, <2>4, KellyIsGood
    <2> QED BY <1>4, <2>4, <2>5 DEF Good
<1> HIDE DEF alone, next
<1>8. \A t \in Sides : stakes[t] \in Nat /\ 10 * stakes[t] <= left
    BY <1>1, <1>4, <1>6, <1>7 DEF Good
<1>9. stakes[s] > 0 => s \in able /\ Good(stakes[s], left, offers[s], Believed(line, spread, forecast, s))
    <2>1. s \notin able => stakes[s] = 0
        BY <1>1
    <2>2. s \in able => stakes[s] = alone(s) \/ (Other(s) \in able /\ stakes[s] = next(s))
        BY <1>1
    <2> QED BY <2>1, <2>2, <1>6, <1>7
<1>10. stakes \in [Sides -> Nat]
    BY <1>1, <1>8
<1> HIDE DEF stakes
<1> QED BY <1>2, <1>4, <1>5, <1>8, <1>9, <1>10 DEF stakes, Good

\* No one source of probability wants both sides at a sure loss.
LEMMA PlanLosesNothing ==
    ASSUME AccountTyped,
           NEW offers \in [Sides -> Offers \cup {Nothing}],
           NEW line \in MarketLines \cup {Nothing}, NEW spread \in MarketLines \cup {Nothing},
           NEW forecast \in Forecasts,
           OneSource(line, spread, forecast),
           \A s \in Sides : PlanOf(offers, line, spread, forecast)[s] > 0
    PROVE  offers["home"].ask + offers["away"].ask < 100
<1> DEFINE b(s) == Believed(line, spread, forecast, s)
           ask(s) == offers[s].ask
           source == SourceOf(line, spread, "home")
<1>1. "home" \in Sides /\ "away" \in Sides
    BY DEF Sides
<1>2. ASSUME NEW s \in Sides PROVE ask(s) \in 1 .. 99 /\ b(s) \in Int /\ ask(s) + 2 <= b(s)
    BY PlanIsGood, WorthIsBelow
<1>3. ASSUME NEW s \in Sides PROVE b(s) # Nothing
    BY PlanIsGood
<1>4. /\ \A s \in Sides : SourceOf(line, spread, s) = source
      /\ source = Nothing \/ (source.fair /\ \A s \in Sides : forecast[s] = 0)
      /\ source \in MarketLines \cup {Nothing}
    BY SourceTyped, <1>1 DEF OneSource, Sides
<1> HIDE DEF source
<1>5. CASE source = Nothing
    <2>1. ASSUME NEW s \in Sides PROVE b(s) <= forecast[s] /\ forecast[s] \in Int
        <3>1. forecast[s] \in Int
            BY ForecastTyped
        <3>2. b(s) = Clamped(forecast[s])
            BY <1>3, <1>4, <1>5, BelievedIs
        <3>3. Clamped(forecast[s]) <= forecast[s] \/ Clamped(forecast[s]) = 1
            BY <3>1, ClampedType
        <3> QED BY <1>2, <3>1, <3>2, <3>3
    <2>2. forecast["home"] + forecast["away"] <= 100
        BY SizingAssumption
    <2> HIDE DEF b, ask
    <2>3. ask("home") + ask("away") < 100
        BY <1>1, <1>2, <2>1, <2>2
    <2> QED BY <2>3 DEF ask
<1>6. CASE source # Nothing
    <2>1. ASSUME NEW s \in Sides
          PROVE  b(s) <= FairOf(source, s) /\ FairOf(source, s) \in Int
        <3>1. b(s) = Clamped(FairOf(source, s))
            BY <1>3, <1>4, <1>6, BelievedIs
        <3>2. FairOf(source, s) \in Int
            BY <1>4, <1>6, FairType
        <3>3. Clamped(FairOf(source, s)) <= FairOf(source, s) \/ Clamped(FairOf(source, s)) = 1
            BY <3>2, ClampedType
        <3> QED BY <1>2, <3>1, <3>2, <3>3
    <2>2. FairOf(source, "home") + FairOf(source, "away") <= 100
        BY <1>4, <1>6, FairAddsUp
    <2> HIDE DEF b, ask
    <2>3. ask("home") + ask("away") < 100
        BY <1>1, <1>2, <2>1, <2>2
    <2> QED BY <2>3 DEF ask
<1> QED BY <1>5, <1>6

----------------------------------------------------------------------------
(* Entry sizing: the inductive invariant. *)

Decisions ==
    [focus : Sides, plan : [Sides -> Nat], offers : [Sides -> Offers \cup {Nothing}],
     verdict : TickVerdicts \ {"bankroll_overspent", "balance_insufficient"}, single : BOOLEAN]

UnseenTyped ==
    /\ unseen \in [cost : [Sides -> Nat], shares : [Sides -> Nat]]
    /\ doubts \in [Sides -> Nat]

\* A cost c and an unseen one u are paid for by the tenths that d answers in doubt allow.
Spent(c, u, d) == 10 * (c + u) <= d * Budget

\* At stake is a tenth more than that, if there are shares h to show for it.
Within(c, h, u, d) ==
    /\ Spent(c, u, 1 + d)
    /\ h = 0 => Spent(c, u, d)
    /\ Spent(0, u, d)

StakesKept ==
    \A s \in Sides : /\ Within(account.cost[s], account.shares[s], unseen.cost[s], doubts[s])
                     /\ doubts[s] <= sent

\* A decision that passed buys an outcome that was not known to be held when it was judged, so
\* that all that is at stake on it is in doubt, and buys it within the budget's share.
PassedIsSound ==
    decision.verdict = "passed" =>
        LET s == decision.focus
            stake == decision.plan[s]
        IN  /\ stake > 0 /\ 10 * stake <= Budget
            /\ decision.offers[s] \in Offers
            /\ decision.offers[s].ask \in 1 .. 99
            /\ stake >= MinShares * decision.offers[s].ask
            /\ stake <= decision.offers[s].depth
            /\ Spent(account.cost[s], unseen.cost[s], doubts[s])
            /\ sent < MaxOrders

SizingInv ==
    /\ AccountTyped /\ UnseenTyped
    /\ decision \in Decisions
    /\ sent \in 0 .. MaxOrders
    /\ StakesKept /\ PassedIsSound /\ NoSureLoss

----------------------------------------------------------------------------
(* Entry sizing: what the steps do to one outcome's figures. *)

LEMMA NextTenth ==
    ASSUME NEW d \in Nat, NEW b \in Nat
    PROVE  (1 + d) * b = d * b + b /\ d * b \in Nat
OBVIOUS

LEMMA NothingSpent == Within(0, 0, 0, 0)
<1>1. Budget \in Nat
    BY SizingAssumption
<1> QED BY <1>1 DEF Within, Spent

LEMMA BoughtWithin ==
    ASSUME NEW c \in Nat, NEW h \in Nat, NEW u \in Nat, NEW d \in Nat,
           NEW f \in Nat, NEW g \in Nat, f > 0 => g > 0,
           Spent(c, u, d), 10 * f <= Budget
    PROVE  Within(c + f, h + g, u, d)
<1> DEFINE b == Budget
           n == d * b
           more == (1 + d) * b
<1>1. b \in Nat /\ n \in Nat /\ more = n + b
    BY SizingAssumption, NextTenth
<1>2. 10 * (c + u) <= n /\ 10 * f <= b
    BY DEF Spent
<1> HIDE DEF b, n, more
<1>3. 10 * (c + f + u) <= more /\ 10 * (0 + u) <= n
    BY <1>1, <1>2
<1>4. h + g = 0 => 10 * (c + f + u) <= n
    BY <1>2
<1> QED BY <1>3, <1>4 DEF Within, Spent, b, n, more

LEMMA DoubtedWithin ==
    ASSUME NEW c \in Nat, NEW h \in Nat, NEW u \in Nat, NEW d \in Nat, NEW f \in Nat,
           Spent(c, u, d), 10 * f <= Budget
    PROVE  Within(c, h, u + f, d + 1)
<1> DEFINE b == Budget
           n == d * b
           more == (d + 1) * b
           most == (1 + (d + 1)) * b
<1>1. b \in Nat /\ n \in Nat /\ more = n + b
    BY SizingAssumption, NextTenth
<1>2. d + 1 \in Nat /\ d + 1 = 1 + d
    OBVIOUS
<1>3. most = more + b
    BY <1>1, <1>2, NextTenth
<1>4. 10 * (c + u) <= n /\ 10 * f <= b
    BY DEF Spent
<1> HIDE DEF b, n, more, most
<1>5. 10 * (c + (u + f)) <= more /\ 10 * (0 + (u + f)) <= more /\ 10 * (c + (u + f)) <= most
    BY <1>1, <1>3, <1>4
<1> QED BY <1>5 DEF Within, Spent, b, more, most

LEMMA LearntWithin ==
    ASSUME NEW c \in Nat, NEW h \in Nat, NEW u \in Nat, NEW d \in Nat, NEW g \in Nat,
           Within(c, h, u, d)
    PROVE  Within(c + u, h + g, 0, d)
<1> DEFINE n == d * Budget
           more == (1 + d) * Budget
<1>1. n \in Nat
    BY SizingAssumption, NextTenth
<1>2. 10 * (c + u) <= more /\ (h = 0 => 10 * (c + u) <= n)
    BY DEF Within, Spent
<1> HIDE DEF n, more
<1>3. 10 * (c + u + 0) <= more /\ (h + g = 0 => 10 * (c + u + 0) <= n) /\ 10 * (0 + 0) <= n
    BY <1>1, <1>2
<1> QED BY <1>3 DEF Within, Spent, n, more

LEMMA LeftWithin ==
    ASSUME NEW c \in Nat, NEW h \in Nat, NEW u \in Nat, NEW d \in Nat,
           Within(c, h, u, d)
    PROVE  Within(0, 0, u, d) /\ Spent(0, u, d)
<1> DEFINE b == Budget
           n == d * b
           more == (1 + d) * b
<1>1. b \in Nat /\ n \in Nat /\ more = n + b
    BY SizingAssumption, NextTenth
<1>2. 10 * (0 + u) <= n
    BY DEF Within, Spent
<1> HIDE DEF b, n, more
<1>3. 10 * (0 + u) <= more
    BY <1>1, <1>2
<1> QED BY <1>2, <1>3 DEF Within, Spent, b, n, more

----------------------------------------------------------------------------
(* Entry sizing: the steps. *)

LEMMA NoDecisionIsSound ==
    /\ NoDecision \in Decisions
    /\ NoDecision.verdict = "none" /\ NoDecision.plan = [s \in Sides |-> 0]
BY DEF NoDecision, Decisions, TickVerdicts, Sides

LEMMA SizingInitInv == SizingInit => SizingInv
<1> SUFFICES ASSUME SizingInit PROVE SizingInv
    OBVIOUS
<1>1. PICK cash \in Purses : account = [cash |-> cash, cost |-> [s \in Sides |-> 0],
                                        shares |-> [s \in Sides |-> 0], onSale |-> {}]
    BY DEF SizingInit
<1>2. cash \in Int
    BY SizingAssumption
<1>3. AccountTyped /\ UnseenTyped
    BY <1>1, <1>2 DEF SizingInit, AccountTyped, UnseenTyped, NothingUnseen
<1>4. decision = NoDecision /\ sent = 0 /\ sent \in 0 .. MaxOrders
    BY SizingAssumption DEF SizingInit
<1>5. PassedIsSound /\ NoSureLoss
    BY <1>4, NoDecisionIsSound DEF PassedIsSound, NoSureLoss, Sides
<1>6. StakesKept
    BY <1>1, <1>4, NothingSpent DEF SizingInit, StakesKept, NothingUnseen
<1> QED BY <1>3, <1>4, <1>5, <1>6, NoDecisionIsSound DEF SizingInv

LEMMA TickInv ==
    ASSUME SizingInv, NEW s \in Sides, NEW offers \in [Sides -> Offers \cup {Nothing}],
           NEW line \in MarketLines \cup {Nothing}, NEW spread \in MarketLines \cup {Nothing},
           NEW forecast \in Forecasts,
           Tick(s, offers, line, spread, forecast)
    PROVE  SizingInv'
<1> DEFINE stakes == PlanOf(offers, line, spread, forecast)
           verdict == VerdictOf(s, offers, stakes)
           single == OneSource(line, spread, forecast)
<1>1. /\ decision' = [focus |-> s, plan |-> stakes, offers |-> offers, verdict |-> verdict, single |-> single]
      /\ UNCHANGED <<account, sent, unseen, doubts>> /\ sent < MaxOrders
    BY DEF Tick
<1>2. AccountTyped /\ UnseenTyped /\ StakesKept /\ sent \in 0 .. MaxOrders
    BY DEF SizingInv
<1>3. stakes \in [Sides -> Nat]
    BY <1>2, PlanIsGood
<1>4. stakes[s] > 0 => offers[s] \in Offers /\ offers[s].ask \in 1 .. 99
                     /\ stakes[s] >= MinShares * offers[s].ask /\ stakes[s] <= offers[s].depth
    BY <1>2, PlanIsGood, WorthIsBelow
<1>5. 10 * stakes[s] <= Bankroll /\ Bankroll \in Nat /\ Bankroll <= Budget /\ Budget \in Nat
      /\ (Bankroll <= account.cash \/ Bankroll = 0) /\ account.cash \in Int
    BY <1>2, PlanIsGood, BankrollType, SizingAssumption DEF AccountTyped
<1>6. single /\ (\A t \in Sides : stakes[t] > 0) => offers["home"].ask + offers["away"].ask < 100
    BY <1>2, PlanLosesNothing
<1> HIDE DEF stakes
<1>7. stakes[s] > 0 => Review(stakes[s], offers[s].ask) \in {"passed", "allowance_insufficient"}
    <2> SUFFICES ASSUME stakes[s] > 0
                 PROVE  Review(stakes[s], offers[s].ask) \in {"passed", "allowance_insufficient"}
        OBVIOUS
    <2> DEFINE stake == stakes[s]
               fee == FeeOf(stakes[s], offers[s].ask)
    <2>1. stake \in Nat /\ 10 * stake <= Bankroll /\ stake > 0
        BY <1>3, <1>5
    <2>2. fee \in Nat /\ fee <= stake
        BY <1>4, <2>1, FeeBelow
    <2> HIDE DEF stake, fee
    <2>3. stake <= Bankroll /\ stake + fee <= account.cash
        BY <1>5, <2>1, <2>2
    <2> QED BY <1>5, <2>1, <2>2, <2>3 DEF Review, stake, fee
<1>8. /\ verdict \in TickVerdicts \ {"bankroll_overspent", "balance_insufficient"}
      /\ verdict = "passed" => stakes[s] > 0 /\ ~Holds(s)
    <2>1. stakes[s] = 0 \/ stakes[s] > 0
        BY <1>3
    <2> QED BY <1>7, <2>1 DEF VerdictOf, TickVerdicts
<1> HIDE DEF verdict, single
<1>9. single \in BOOLEAN
    BY DEF single, OneSource
<1>10. decision' \in Decisions
    BY <1>1, <1>3, <1>8, <1>9 DEF Decisions
<1>11. PassedIsSound'
    <2>1. verdict = "passed" => Spent(account.cost[s], unseen.cost[s], doubts[s])
        <3>1. account.shares[s] \in Nat
            BY <1>2 DEF AccountTyped
        <3>2. ~Holds(s) => account.shares[s] = 0
            BY <3>1 DEF Holds
        <3> QED BY <1>2, <1>8, <3>2 DEF StakesKept, Within
    <2>2. account' = account /\ unseen' = unseen /\ doubts' = doubts
        BY <1>1
    <2>3. verdict = "passed" => 10 * stakes[s] <= Budget
        BY <1>3, <1>5
    <2> QED BY <1>1, <1>3, <1>4, <1>8, <2>1, <2>2, <2>3 DEF PassedIsSound, Spent
<1>12. NoSureLoss'
    BY <1>1, <1>6 DEF NoSureLoss
<1>13. AccountTyped' /\ UnseenTyped' /\ StakesKept'
    BY <1>1, <1>2 DEF AccountTyped, UnseenTyped, StakesKept, Within, Spent
<1> QED BY <1>1, <1>2, <1>10, <1>11, <1>12, <1>13 DEF SizingInv

\* A decision is dropped and the account stays.
LEMMA DroppedInv ==
    ASSUME SizingInv, UNCHANGED <<account, sent, unseen, doubts>>, decision' \in Decisions,
           decision'.verdict # "passed", decision'.plan = [s \in Sides |-> 0]
    PROVE  SizingInv'
<1>1. AccountTyped' /\ UnseenTyped' /\ StakesKept'
    BY DEF SizingInv, AccountTyped, UnseenTyped, StakesKept, Within, Spent
<1>2. PassedIsSound' /\ NoSureLoss'
    BY DEF PassedIsSound, NoSureLoss, Sides
<1> QED BY <1>1, <1>2 DEF SizingInv

\* What a decision that passed fills, and what it gets for it.
FillOf(filled, gained) ==
    LET s == decision.focus
        ask == decision.offers[s].ask
    IN  /\ s \in Sides /\ filled \in Nat /\ gained \in Nat
        /\ 10 * filled <= Budget
        /\ filled > 0 => gained > 0
        /\ Spent(account.cost[s], unseen.cost[s], doubts[s])
        /\ gained = SharesFor(filled, ask)
        /\ sent < MaxOrders

LEMMA FillIsSound ==
    ASSUME SizingInv, decision.verdict = "passed",
           NEW filled \in Fills(decision.plan[decision.focus], decision.offers[decision.focus])
    PROVE  FillOf(filled, SharesFor(filled, decision.offers[decision.focus].ask))
<1> DEFINE s == decision.focus
           offer == decision.offers[s]
           stake == decision.plan[s]
           ask == offer.ask
<1>1. /\ stake > 0 /\ 10 * stake <= Budget /\ offer \in Offers /\ ask \in 1 .. 99
      /\ s \in Sides /\ stake \in Nat /\ sent < MaxOrders
      /\ Spent(account.cost[s], unseen.cost[s], doubts[s])
    BY DEF SizingInv, PassedIsSound, Decisions
<1>2. offer.top \in Nat /\ Budget \in Nat
    BY <1>1, SizingAssumption
<1>3. filled \in Nat /\ filled <= stake
    <2> DEFINE top == offer.top
               most == Min({stake, top})
    <2>1. filled = 0 \/ filled = most
        BY DEF Fills
    <2>2. top \in Int /\ top >= 0 /\ stake \in Int
        BY <1>1, <1>2
    <2> HIDE DEF stake, top
    <2>3. most = IF stake <= top THEN stake ELSE top
        BY <2>2, MaxOfTwo
    <2> QED BY <1>1, <2>1, <2>2, <2>3
<1> DEFINE fee == FeeOf(filled, ask)
           gained == SharesFor(filled, ask)
<1>4. fee \in Nat /\ fee <= filled /\ (filled > 0 => fee < filled)
    BY <1>1, <1>3, FeeBelow
<1>5. gained \in Nat /\ (filled > 0 => gained > 0)
    <2> DEFINE a == 100 * (filled - fee)
    <2>1. a \in Nat /\ (filled > 0 => a >= 100)
        BY <1>3, <1>4
    <2>2. gained = a \div ask
        BY DEF SharesFor
    <2> HIDE DEF a, ask, gained
    <2>3. a \div ask \in Nat /\ (a >= 100 => a \div ask > 0)
        BY <1>1, <2>1
    <2> QED BY <2>1, <2>2, <2>3 DEF a, ask
<1>6. 10 * filled <= Budget
    <2> HIDE DEF stake
    <2> QED BY <1>1, <1>2, <1>3
<1> HIDE DEF gained
<1>7. FillOf(filled, gained)
    BY <1>1, <1>3, <1>5, <1>6 DEF FillOf, gained
<1> QED BY <1>7 DEF gained

\* What a FAK gets is paid for, and what is paid buys shares.
LEMMA OrderInv ==
    ASSUME SizingInv, Order
    PROVE  SizingInv'
<1> DEFINE s == decision.focus
           ask == decision.offers[s].ask
<1>1. /\ decision.verdict = "passed" /\ sent' = sent + 1 /\ decision' = NoDecision
      /\ UNCHANGED <<unseen, doubts>>
    BY DEF Order
<1>2. PICK filled \in Fills(decision.plan[s], decision.offers[s]) : account' = Bought(s, ask, filled)
    BY DEF Order
<1> DEFINE gained == SharesFor(filled, ask)
<1>3. FillOf(filled, gained)
    BY <1>1, <1>2, FillIsSound
<1>4. /\ s \in Sides /\ filled \in Nat /\ gained \in Nat /\ 10 * filled <= Budget
      /\ (filled > 0 => gained > 0) /\ sent < MaxOrders
      /\ Spent(account.cost[s], unseen.cost[s], doubts[s])
    BY <1>3 DEF FillOf
<1>5. AccountTyped /\ UnseenTyped /\ StakesKept /\ sent \in Nat /\ MaxOrders \in Nat
    BY SizingAssumption DEF SizingInv
<1>6. account' = [cash |-> account.cash - filled,
                  cost |-> [account.cost EXCEPT ![s] = account.cost[s] + filled],
                  shares |-> [account.shares EXCEPT ![s] = account.shares[s] + gained],
                  onSale |-> account.onSale]
    BY <1>2, <1>5 DEF Bought, With, AccountTyped
<1> HIDE DEF s, ask, gained
<1>7. AccountTyped' /\ UnseenTyped'
    BY <1>1, <1>4, <1>5, <1>6 DEF AccountTyped, UnseenTyped
<1>8. ASSUME NEW t \in Sides
      PROVE  Within(account'.cost[t], account'.shares[t], unseen'.cost[t], doubts'[t])
    <2>1. /\ account.cost[t] \in Nat /\ account.shares[t] \in Nat
          /\ unseen.cost[t] \in Nat /\ doubts[t] \in Nat
        BY <1>5 DEF AccountTyped, UnseenTyped
    <2>2. unseen'.cost[t] = unseen.cost[t] /\ doubts'[t] = doubts[t]
        BY <1>1
    <2>3. CASE t = s
        <3>1. account'.cost[t] = account.cost[t] + filled /\ account'.shares[t] = account.shares[t] + gained
            BY <1>4, <1>5, <1>6, <2>3 DEF AccountTyped
        <3>2. Within(account.cost[t] + filled, account.shares[t] + gained, unseen.cost[t], doubts[t])
            BY <1>4, <2>1, <2>3, BoughtWithin
        <3> QED BY <3>1, <3>2, <2>2
    <2>4. CASE t # s
        <3>1. account'.cost[t] = account.cost[t] /\ account'.shares[t] = account.shares[t]
            BY <1>4, <1>5, <1>6, <2>4 DEF AccountTyped
        <3> QED BY <1>5, <3>1, <2>2 DEF StakesKept
    <2> QED BY <2>3, <2>4
<1>9. StakesKept'
    <2>1. ASSUME NEW t \in Sides PROVE doubts'[t] <= sent'
        <3>1. doubts[t] <= sent /\ doubts[t] \in Nat
            BY <1>5 DEF StakesKept, UnseenTyped
        <3> QED BY <1>1, <1>5, <3>1
    <2> QED BY <1>8, <2>1 DEF StakesKept
<1>10. sent' \in 0 .. MaxOrders
    BY <1>1, <1>4, <1>5
<1>11. decision' \in Decisions /\ PassedIsSound' /\ NoSureLoss'
    BY <1>1, NoDecisionIsSound DEF PassedIsSound, NoSureLoss, Sides
<1> QED BY <1>7, <1>9, <1>10, <1>11 DEF SizingInv

\* What an answer in doubt leaves behind is paid for by the tenth that the doubt allows.
LEMMA OrderInDoubtInv ==
    ASSUME SizingInv, OrderInDoubt
    PROVE  SizingInv'
<1> DEFINE s == decision.focus
           ask == decision.offers[s].ask
<1>1. /\ decision.verdict = "passed" /\ sent' = sent + 1 /\ decision' = NoDecision
      /\ doubts' = [doubts EXCEPT ![s] = doubts[s] + 1] /\ UNCHANGED account
    BY DEF OrderInDoubt
<1>2. PICK filled \in Fills(decision.plan[s], decision.offers[s]) :
          unseen' = With(unseen, s, filled, SharesFor(filled, ask))
    BY DEF OrderInDoubt
<1> DEFINE gained == SharesFor(filled, ask)
<1>3. FillOf(filled, gained)
    BY <1>1, <1>2, FillIsSound
<1>4. /\ s \in Sides /\ filled \in Nat /\ gained \in Nat /\ 10 * filled <= Budget
      /\ sent < MaxOrders
      /\ Spent(account.cost[s], unseen.cost[s], doubts[s])
    BY <1>3 DEF FillOf
<1>5. AccountTyped /\ UnseenTyped /\ StakesKept /\ sent \in Nat /\ MaxOrders \in Nat
    BY SizingAssumption DEF SizingInv
<1>6. unseen' = [cost |-> [unseen.cost EXCEPT ![s] = unseen.cost[s] + filled],
                 shares |-> [unseen.shares EXCEPT ![s] = unseen.shares[s] + gained]]
    BY <1>2, <1>5 DEF With, UnseenTyped
<1> HIDE DEF s, ask, gained
<1>7. AccountTyped' /\ UnseenTyped'
    BY <1>1, <1>4, <1>5, <1>6 DEF AccountTyped, UnseenTyped
<1>8. ASSUME NEW t \in Sides
      PROVE  /\ Within(account'.cost[t], account'.shares[t], unseen'.cost[t], doubts'[t])
             /\ doubts'[t] <= sent'
    <2>1. /\ account.cost[t] \in Nat /\ account.shares[t] \in Nat
          /\ unseen.cost[t] \in Nat /\ doubts[t] \in Nat
        BY <1>5 DEF AccountTyped, UnseenTyped
    <2>2. doubts[t] <= sent /\ account'.cost[t] = account.cost[t] /\ account'.shares[t] = account.shares[t]
        BY <1>1, <1>5 DEF StakesKept
    <2>3. CASE t = s
        <3>1. unseen'.cost[t] = unseen.cost[t] + filled /\ doubts'[t] = doubts[t] + 1
            BY <1>1, <1>4, <1>5, <1>6, <2>3 DEF UnseenTyped
        <3>2. Within(account.cost[t], account.shares[t], unseen.cost[t] + filled, doubts[t] + 1)
            BY <1>4, <2>1, <2>3, DoubtedWithin
        <3>3. doubts'[t] <= sent'
            BY <1>1, <1>5, <2>1, <2>2, <3>1
        <3> QED BY <3>1, <3>2, <3>3, <2>2
    <2>4. CASE t # s
        <3>1. unseen'.cost[t] = unseen.cost[t] /\ doubts'[t] = doubts[t]
            BY <1>1, <1>4, <1>5, <1>6, <2>4 DEF UnseenTyped
        <3>2. doubts'[t] <= sent'
            BY <1>1, <1>5, <2>1, <2>2, <3>1
        <3> QED BY <1>5, <3>1, <3>2, <2>2 DEF StakesKept
    <2> QED BY <2>3, <2>4
<1>9. StakesKept'
    BY <1>8 DEF StakesKept
<1>10. sent' \in 0 .. MaxOrders
    BY <1>1, <1>4, <1>5
<1>11. decision' \in Decisions /\ PassedIsSound' /\ NoSureLoss'
    BY <1>1, NoDecisionIsSound DEF PassedIsSound, NoSureLoss, Sides
<1> QED BY <1>7, <1>9, <1>10, <1>11 DEF SizingInv

\* A step that leaves the decision keeps it sound if nothing more is at stake.
LEMMA StillPassed ==
    ASSUME SizingInv, UNCHANGED <<decision, sent>>,
           \A t \in Sides : Spent(account.cost[t], unseen.cost[t], doubts[t])
                                => Spent(account'.cost[t], unseen'.cost[t], doubts'[t])
    PROVE  PassedIsSound' /\ NoSureLoss' /\ decision' \in Decisions /\ sent' \in 0 .. MaxOrders
<1>1. decision' = decision /\ sent' = sent /\ decision.focus \in Sides
    BY DEF SizingInv, Decisions
<1>2. PassedIsSound'
    <2> SUFFICES ASSUME decision.verdict = "passed" PROVE PassedIsSound'
        BY <1>1 DEF PassedIsSound
    <2> DEFINE s == decision.focus
    <2>1. Spent(account.cost[s], unseen.cost[s], doubts[s])
        BY DEF SizingInv, PassedIsSound
    <2>2. Spent(account'.cost[s], unseen'.cost[s], doubts'[s])
        BY <1>1, <2>1
    <2> QED BY <1>1, <2>2 DEF SizingInv, PassedIsSound, Spent
<1> QED BY <1>1, <1>2 DEF SizingInv, NoSureLoss

\* A poll moves what is at stake from what was not seen to what is known.
LEMMA LearnInv ==
    ASSUME SizingInv, Learn
    PROVE  SizingInv'
<1>1. AccountTyped /\ UnseenTyped /\ StakesKept
    BY DEF SizingInv
<1>2. /\ account' = [cash |-> Wallet,
                     cost |-> [s \in Sides |-> account.cost[s] + unseen.cost[s]],
                     shares |-> [s \in Sides |-> account.shares[s] + unseen.shares[s]],
                     onSale |-> account.onSale]
      /\ unseen' = NothingUnseen /\ UNCHANGED <<decision, sent, doubts>>
    BY <1>1 DEF Learn, AccountTyped
<1>3. Wallet \in Int
    BY <1>1 DEF Wallet, AccountTyped, UnseenTyped, Sides
<1>4. AccountTyped' /\ UnseenTyped'
    BY <1>1, <1>2, <1>3 DEF AccountTyped, UnseenTyped, NothingUnseen
<1>5. ASSUME NEW t \in Sides
      PROVE  /\ Within(account'.cost[t], account'.shares[t], unseen'.cost[t], doubts'[t])
             /\ Spent(account.cost[t], unseen.cost[t], doubts[t])
                    => Spent(account'.cost[t], unseen'.cost[t], doubts'[t])
    <2>1. /\ account.cost[t] \in Nat /\ account.shares[t] \in Nat
          /\ unseen.cost[t] \in Nat /\ unseen.shares[t] \in Nat /\ doubts[t] \in Nat
        BY <1>1 DEF AccountTyped, UnseenTyped
    <2>2. /\ account'.cost[t] = account.cost[t] + unseen.cost[t]
          /\ account'.shares[t] = account.shares[t] + unseen.shares[t]
          /\ unseen'.cost[t] = 0 /\ doubts'[t] = doubts[t]
        BY <1>2 DEF NothingUnseen
    <2>3. Within(account.cost[t] + unseen.cost[t], account.shares[t] + unseen.shares[t], 0, doubts[t])
        BY <1>1, <2>1, LearntWithin DEF StakesKept
    <2>4. account.cost[t] + unseen.cost[t] + 0 = account.cost[t] + unseen.cost[t]
        BY <2>1
    <2> QED BY <2>2, <2>3, <2>4 DEF Spent
<1>6. StakesKept'
    <2>1. \A t \in Sides : doubts'[t] <= sent'
        BY <1>1, <1>2 DEF StakesKept
    <2> QED BY <1>5, <2>1 DEF StakesKept
<1>7. PassedIsSound' /\ NoSureLoss' /\ decision' \in Decisions /\ sent' \in 0 .. MaxOrders
    BY <1>2, <1>5, StillPassed
<1> QED BY <1>4, <1>6, <1>7 DEF SizingInv

LEMMA OfferExitInv ==
    ASSUME SizingInv, NEW s \in Sides, OfferExit(s)
    PROVE  SizingInv'
<1>1. AccountTyped /\ UnseenTyped /\ StakesKept
    BY DEF SizingInv
<1>2. /\ account' = [cash |-> account.cash, cost |-> account.cost, shares |-> account.shares,
                     onSale |-> account.onSale \cup {s}]
      /\ UNCHANGED <<decision, sent, unseen, doubts>>
    BY <1>1 DEF OfferExit, AccountTyped
<1>3. AccountTyped' /\ UnseenTyped'
    BY <1>1, <1>2 DEF AccountTyped, UnseenTyped
<1>4. account'.cost = account.cost /\ account'.shares = account.shares
    BY <1>2
<1>5. StakesKept'
    BY <1>1, <1>2, <1>4 DEF StakesKept
<1>6. PassedIsSound' /\ NoSureLoss' /\ decision' \in Decisions /\ sent' \in 0 .. MaxOrders
    BY <1>2, <1>4, StillPassed
<1> QED BY <1>3, <1>5, <1>6 DEF SizingInv

\* An exit gives the shares back, and with them what they cost.
LEMMA ExitTakenInv ==
    ASSUME SizingInv, NEW s \in Sides, ExitTaken(s)
    PROVE  SizingInv'
<1>1. AccountTyped /\ UnseenTyped /\ StakesKept /\ sent \in Nat
    BY SizingAssumption DEF SizingInv
<1> DEFINE cash == account.cash + account.cost[s] \div 2
           cost == [account.cost EXCEPT ![s] = 0]
           shares == [account.shares EXCEPT ![s] = 0]
           left == IF unseen.cost[s] = 0 THEN 0 ELSE doubts[s]
<1>2. /\ account' = [cash |-> cash, cost |-> cost, shares |-> shares, onSale |-> account.onSale \ {s}]
      /\ UNCHANGED <<decision, sent, unseen>>
    BY <1>1 DEF ExitTaken, AccountTyped
<1>3. doubts' = [doubts EXCEPT ![s] = left]
    BY DEF ExitTaken
<1>4. cash \in Int
    <2> DEFINE c == account.cost[s]
    <2>1. c \in Nat /\ account.cash \in Int
        BY <1>1 DEF AccountTyped
    <2> HIDE DEF c
    <2>2. account.cash + c \div 2 \in Int
        BY <2>1
    <2> QED BY <2>2 DEF c
<1>5. cost \in [Sides -> Nat] /\ shares \in [Sides -> Nat] /\ left \in Nat
    BY <1>1 DEF AccountTyped, UnseenTyped
<1>6. ASSUME NEW t \in Sides
      PROVE  /\ t = s => cost[t] = 0 /\ shares[t] = 0 /\ doubts'[t] = left
             /\ t # s => /\ cost[t] = account.cost[t] /\ shares[t] = account.shares[t]
                         /\ doubts'[t] = doubts[t]
    BY <1>1, <1>3 DEF AccountTyped, UnseenTyped
<1> HIDE DEF cash, cost, shares
<1>7. AccountTyped' /\ UnseenTyped'
    BY <1>1, <1>2, <1>3, <1>4, <1>5 DEF AccountTyped, UnseenTyped
<1>8. ASSUME NEW t \in Sides
      PROVE  /\ Within(account'.cost[t], account'.shares[t], unseen'.cost[t], doubts'[t])
             /\ doubts'[t] <= sent'
             /\ Spent(account.cost[t], unseen.cost[t], doubts[t])
                    => Spent(account'.cost[t], unseen'.cost[t], doubts'[t])
    <2>1. /\ account.cost[t] \in Nat /\ account.shares[t] \in Nat
          /\ unseen.cost[t] \in Nat /\ doubts[t] \in Nat
        BY <1>1 DEF AccountTyped, UnseenTyped
    <2>2. account'.cost[t] = cost[t] /\ account'.shares[t] = shares[t]
          /\ unseen'.cost[t] = unseen.cost[t] /\ sent' = sent
        BY <1>2
    <2>3. Within(account.cost[t], account.shares[t], unseen.cost[t], doubts[t]) /\ doubts[t] <= sent
        BY <1>1 DEF StakesKept
    <2>4. CASE t # s
        BY <1>6, <2>2, <2>3, <2>4
    <2>5. CASE t = s
        <3>1. account'.cost[t] = 0 /\ account'.shares[t] = 0 /\ doubts'[t] = left
            BY <1>6, <2>2, <2>5
        <3>2. Within(0, 0, unseen.cost[t], doubts[t]) /\ Spent(0, unseen.cost[t], doubts[t])
            BY <2>1, <2>3, LeftWithin
        <3>3. CASE unseen.cost[t] = 0
            <4>1. left = 0
                BY <2>5, <3>3
            <4>2. Within(0, 0, 0, 0) /\ Spent(0, 0, 0)
                BY NothingSpent DEF Within
            <4>3. 0 <= sent
                BY <1>1
            <4> QED BY <2>2, <3>1, <3>3, <4>1, <4>2, <4>3
        <3>4. CASE unseen.cost[t] # 0
            <4>1. left = doubts[t]
                BY <2>5, <3>4
            <4> QED BY <2>2, <2>3, <3>1, <3>2, <4>1
        <3> QED BY <3>3, <3>4
    <2> QED BY <2>4, <2>5
<1>9. StakesKept'
    BY <1>8 DEF StakesKept
<1>10. PassedIsSound' /\ NoSureLoss' /\ decision' \in Decisions /\ sent' \in 0 .. MaxOrders
    BY <1>2, <1>8, StillPassed
<1> QED BY <1>7, <1>9, <1>10 DEF SizingInv

LEMMA SizingStep ==
    ASSUME SizingInv, [SizingNext]_sizing_vars
    PROVE  SizingInv'
<1>1. ASSUME NEW ground \in Grounds, Refused(ground) PROVE SizingInv'
    <2>1. decision' = [NoDecision EXCEPT !.verdict = ground] /\ UNCHANGED <<account, sent, unseen, doubts>>
        BY <1>1 DEF Refused
    <2>2. /\ ground \in TickVerdicts \ {"bankroll_overspent", "balance_insufficient", "passed"}
        BY DEF Grounds, TickVerdicts
    <2> QED BY <2>1, <2>2, NoDecisionIsSound, DroppedInv DEF Decisions
<1>2. CASE Skip
    <2>1. decision' = NoDecision /\ UNCHANGED <<account, sent, unseen, doubts>>
        BY <1>2 DEF Skip
    <2> QED BY <2>1, NoDecisionIsSound, DroppedInv
<1>3. CASE UNCHANGED sizing_vars
    BY <1>3 DEF sizing_vars, SizingInv, AccountTyped, UnseenTyped, StakesKept, Within, Spent,
                PassedIsSound, NoSureLoss
<1> QED BY <1>1, <1>2, <1>3, TickInv, OrderInv, OrderInDoubtInv, LearnInv, OfferExitInv, ExitTakenInv
        DEF SizingNext

\* The inductive invariant: what is at stake on an outcome is what its doubts and one known
\* purchase pay for, and a decision that passed is about an outcome of which nothing was known
\* to be held; polls, exits and answers in doubt may come before its order returns.
\* (quant_decider.py, allocation.py, risk.py, pipeline/decision/worker.py)
THEOREM SizingInvariance == SizingSpec => []SizingInv
<1>1. SizingInv /\ [SizingNext]_sizing_vars => SizingInv'
    BY SizingStep
<1> QED BY <1>1, SizingInitInv, PTL DEF SizingSpec

\* Every variable keeps its type; stakes, costs and shares are never negative.
THEOREM SizingTypeCorrect == SizingSpec => []SizingTypeOK
<1>1. SizingInv => SizingTypeOK
    <2> SUFFICES ASSUME SizingInv PROVE SizingTypeOK
        OBVIOUS
    <2>1. \A s \in Sides : doubts[s] \in 0 .. MaxOrders
        <3>1. sent \in 0 .. MaxOrders /\ MaxOrders \in Nat
            BY SizingAssumption DEF SizingInv
        <3>2. \A s \in Sides : doubts[s] \in Nat /\ doubts[s] <= sent
            BY DEF SizingInv, UnseenTyped, StakesKept
        <3> QED BY <3>1, <3>2
    <2>2. doubts \in [Sides -> 0 .. MaxOrders]
        BY <2>1 DEF SizingInv, UnseenTyped
    <2> QED BY <2>2 DEF SizingInv, AccountTyped, UnseenTyped, Decisions, SizingTypeOK
<1> QED BY <1>1, SizingInvariance, PTL

\* For any budget, fee, offers, lines and forecasts: what is sized is not refused for money; at
\* most a tenth of the budget is at stake on an outcome, and a tenth more for every answer that
\* did not tell what was filled; and one source of probability, the formulas or the fair shares
\* of one line, buys no two outcomes at a sure loss.  (kelly_stake, kelly_plan, RiskManager)
THEOREM SizingIsSound == SizingSpec => []SizedIsAccepted
<1>1. SizingInv => SizedIsAccepted
    <2> SUFFICES ASSUME SizingInv PROVE SizedIsAccepted
        OBVIOUS
    <2>1. StakeAccepted /\ NoSureLoss
        BY DEF SizingInv, PassedIsSound, Decisions, StakeAccepted
    <2>2. StakeBounded
        BY DEF SizingInv, StakesKept, Within, Spent, StakeBounded, AtStake
    <2> QED BY <2>1, <2>2 DEF SizedIsAccepted
<1> QED BY <1>1, SizingInvariance, PTL
===============================================================================
