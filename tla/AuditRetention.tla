--------------------------- MODULE AuditRetention ---------------------------
(***************************************************************************)
(* The daily purge of the audit log (app/audit_retention.py) by the tiers   *)
(* of infra/db/retention_policy.py: one tier after another, each in batches *)
(* that are transactions of their own, then whatever no tier names.  The    *)
(* audit workers write between the batches, a row another transaction has   *)
(* locked is passed over, and a batch may fail.  A title stands for those   *)
(* with the same prefix, a row for the rows of its title and day.           *)
(***************************************************************************)
EXTENDS Integers, FiniteSets, SequencesExt, FiniteSetsExt

CONSTANTS
    Tiers,        \* sequence of [titles, days] as the policy declares them
    Titles,       \* the titles of the log, those without a tier too
    FallbackDays, \* audit_retention_days
    BatchSize,
    MaxBatches,   \* _MAX_BATCHES_PER_TIER
    MaxRows,      \* bound: rows in the log
    LastDay,      \* bound
    Permanent     \* PERMANENT_RETENTION_DAYS

(* No title is in two tiers of different days, as in _DEFAULT_TIERS. *)
ASSUME PolicyAssumption ==
    /\ Permanent \notin Nat
    /\ Tiers \in Seq([titles : SUBSET Titles, days : Nat \cup {Permanent}])
    /\ \A i, j \in DOMAIN Tiers :
          Tiers[i].titles \cap Tiers[j].titles # {} => Tiers[i].days = Tiers[j].days
    /\ FallbackDays \in Nat

ASSUME BoundsAssumption ==
    /\ BatchSize \in Nat \ {0}
    /\ MaxBatches \in Nat \ {0}
    /\ MaxRows \in Nat
    /\ LastDay \in Nat

VARIABLES
    today,
    rows,     \* the log: <<title, day>>
    purge     \* the purge under way: buckets left, day it started, batches of this bucket

vars == <<today, rows, purge>>

----------------------------------------------------------------------------
(* retention_policy.py *)

(* retention_days_for: the first tier that names the title. *)
RetentionDaysFor(title) ==
    LET naming == {i \in DOMAIN Tiers : title \in Tiers[i].titles}
    IN  IF naming = {} THEN FallbackDays ELSE Tiers[Min(naming)].days

(* buckets_by_days: the tiers with the same days are one bucket. *)
BucketsByDays ==
    LET with(d) == {i \in DOMAIN Tiers : Tiers[i].days = d}
    IN  {[days |-> d, titles |-> UNION {Tiers[i].titles : i \in with(d)}] :
            d \in {Tiers[i].days : i \in DOMAIN Tiers}}

----------------------------------------------------------------------------
(* audit_retention.py *)

(* Mutant: only the tiers that are purged count as covered. *)
CoveredIfPurged == UNION {b.titles : b \in {c \in BucketsByDays : c.days # Permanent}}

(* The titles of every bucket, the permanent one too. *)
Covered == UNION {b.titles : b \in BucketsByDays}

(* The buckets a purge goes through, and the fallback after them. *)
Buckets ==
    Append(SetToSeq({b \in BucketsByDays : b.days # Permanent}),
           [days |-> FallbackDays, titles |-> Titles \ Covered])

Cutoff(days) == purge.started - days

ExpiredIn(bucket) == {r \in rows : r[1] \in bucket.titles /\ r[2] < Cutoff(bucket.days)}

Init ==
    /\ today = 0
    /\ rows = {}
    /\ purge = [left |-> <<>>, started |-> 0, batches |-> 0]

(* The audit workers write, between the batches as well. *)
Write(t) ==
    /\ Cardinality(rows) < MaxRows
    /\ rows' = rows \cup {<<t, today>>}
    /\ UNCHANGED <<today, purge>>

DayPasses ==
    /\ today < LastDay
    /\ today' = today + 1
    /\ UNCHANGED <<rows, purge>>

(* purge_audit_events_once: the job's turn. *)
Start ==
    /\ purge.left = <<>>
    /\ purge' = [left |-> Buckets, started |-> today, batches |-> 0]
    /\ UNCHANGED <<today, rows>>

NextBucket == [purge EXCEPT !.left = Tail(@), !.batches = 0]

(* A batch: expired rows that are not locked, as many as it holds.  One that is *)
(* not full is the bucket's last, and so is the one that reaches the cap.       *)
Batch(locked) ==
    /\ purge.left # <<>>
    /\ LET free == ExpiredIn(Head(purge.left)) \ locked
       IN  \E taken \in SUBSET free :
             /\ Cardinality(taken) = IF Cardinality(free) < BatchSize THEN Cardinality(free)
                                     ELSE BatchSize
             /\ rows' = rows \ taken
             /\ purge' = IF Cardinality(taken) < BatchSize \/ purge.batches + 1 = MaxBatches
                         THEN NextBucket ELSE [purge EXCEPT !.batches = @ + 1]
    /\ UNCHANGED today

(* A batch that fails ends its bucket; the others go on. *)
BatchFails ==
    /\ purge.left # <<>>
    /\ purge' = NextBucket
    /\ UNCHANGED <<today, rows>>

Next ==
    \/ \E t \in Titles : Write(t)
    \/ DayPasses
    \/ Start
    \/ \E locked \in SUBSET rows : Batch(locked)
    \/ BatchFails

Spec == Init /\ [][Next]_vars

----------------------------------------------------------------------------
TypeOK ==
    /\ today \in 0 .. LastDay
    /\ rows \subseteq Titles \X (0 .. LastDay)
    /\ purge.started \in 0 .. today
    /\ purge.batches \in 0 .. MaxBatches - 1

(* A row that has had its time, by the policy. *)
Overdue(r) == /\ RetentionDaysFor(r[1]) # Permanent
              /\ r[2] < today - RetentionDaysFor(r[1])

(* The purge takes what the policy says has had its time and nothing else, for  *)
(* titles of every tier and of none: fills, the record of the money, stay.      *)
KeptForItsTime ==
    [][\A r \in rows \ rows' : Overdue(r)]_vars

=============================================================================
