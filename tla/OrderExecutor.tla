---------------------------- MODULE OrderExecutor ----------------------------
(***************************************************************************)
(* PolymarketOrderExecutor (infra/polymarket/order_executor.py): the only  *)
(* component that submits, cancels or replaces orders.  Coroutines (Calls) *)
(* enter submit / cancel / replace; each request has an idempotency key,   *)
(* and the idempotency index decides whether the call starts an execution, *)
(* shares the one in progress, or gets the stored result.  The execution   *)
(* is an asyncio task that signs and then hands the request to a worker    *)
(* thread; the caller, the task and the thread each have a timeout or none *)
(* and outlive one another.                                                *)
(*                                                                         *)
(* The critical section of _execute holds an asyncio.Lock and contains no  *)
(* await; acquiring a free asyncio.Lock does not yield under the required  *)
(* Python (>= 3.12), so no coroutine ever finds the lock taken: looking up *)
(* the index is one atomic step and the critical_lock_timeout branch is    *)
(* not reachable.                                                          *)
(***************************************************************************)
EXTENDS Naturals, Sequences

CONSTANTS
  Calls,       \* the coroutines that call submit / cancel / replace
  Requests,    \* the requests they may make
  Keys,        \* idempotency keys
  Conditions,  \* markets (condition ids)
  MaxCached,   \* max_cached_results
  NoTask       \* "no task" in the index

\* A request stands for its fingerprint: two requests are equal iff their
\* signatures are.  body is what distinguishes requests that agree on the rest.
RequestShape ==
  [action : {"submit", "cancel", "replace"}, key : Keys, condition : Conditions, body : Nat]

\* The n-th _execute of a call creates at most one task: name it by both.
Tasks == Calls \X {1, 2}

ASSUME RequestsAssumption == Requests # {} /\ Requests \subseteq RequestShape
ASSUME MaxCachedAssumption == MaxCached \in Nat \ {0}
ASSUME NoTaskAssumption == NoTask \notin Tasks

\* What a task can end with.  "accepted" is every positive reply (live, filled,
\* no fill, cancelled); "nobalance" is REJECTED with "not enough balance".
Outcomes == {"accepted", "rejected", "nobalance", "failed", "timeout"}
\* What a caller can get besides: the key is taken by another request, or the
\* condition is in its confirmation window.
Refusals == {"conflict", "pending"}

VARIABLES
  pc,         \* pc[c]: "idle", "awaiting", "backoff" (replace sleeps before its retry), "returned"
  request,    \* request[c]: the request of the call
  attempt,    \* attempt[c]: which _execute of the call is running
  awaited,    \* awaited[c]: the task the call awaits or took its answer from
  answer,     \* answer[c]: the OrderResult the call returned, "none" before
  phase,      \* phase[t]: "unused", "signing", "sending", "finished", "stored"
  result,     \* result[t]: the result of the task, "none" before it finishes
  thread,     \* thread[t]: the adapter job: "none", "queued", "running", "over"
  effect,     \* effect[t]: what the exchange did: "none", "asked" (replace: the cancel was answered), "landed"
  reply,      \* reply[t]: how the adapter job ended, "none" before
  index,      \* _idempotency_index: the task whose signature and task/result the entry holds
  completed,  \* _completed: keys with a stored result, oldest first
  window      \* conditions with a running pending-timeout-confirmation timer

callVars == <<pc, request, attempt, awaited, answer>>
taskVars == <<phase, result>>
adapterVars == <<thread, effect, reply>>
cacheVars == <<index, completed>>
vars == <<callVars, taskVars, adapterVars, cacheVars, window>>

RequestOf(t) == request[t[1]]

TypeOK ==
  /\ pc \in [Calls -> {"idle", "awaiting", "backoff", "returned"}]
  /\ request \in [Calls -> Requests]
  /\ attempt \in [Calls -> {1, 2}]
  /\ awaited \in [Calls -> Tasks \cup {NoTask}]
  /\ answer \in [Calls -> Outcomes \cup Refusals \cup {"none"}]
  /\ phase \in [Tasks -> {"unused", "signing", "sending", "finished", "stored"}]
  /\ result \in [Tasks -> Outcomes \cup {"none"}]
  /\ thread \in [Tasks -> {"none", "queued", "running", "over"}]
  /\ effect \in [Tasks -> {"none", "asked", "landed"}]
  /\ reply \in [Tasks -> {"none", "accepted", "rejected", "nobalance", "error"}]
  /\ index \in [Keys -> Tasks \cup {NoTask}]
  /\ completed \in Seq(Keys)
  /\ window \in SUBSET Conditions

\* The request a call will make is fixed at the start: which of them enter, and
\* when, is up to the behaviour.
Init ==
  /\ pc = [c \in Calls |-> "idle"]
  /\ request \in [Calls -> Requests]
  /\ attempt = [c \in Calls |-> 1]
  /\ awaited = [c \in Calls |-> NoTask]
  /\ answer = [c \in Calls |-> "none"]
  /\ phase = [t \in Tasks |-> "unused"]
  /\ result = [t \in Tasks |-> "none"]
  /\ thread = [t \in Tasks |-> "none"]
  /\ effect = [t \in Tasks |-> "none"]
  /\ reply = [t \in Tasks |-> "none"]
  /\ index = [k \in Keys |-> NoTask]
  /\ completed = <<>>
  /\ window = {}

------------------------------------------------------------------------------
(* The caller's side. *)

\* _execute returned r to the call: replace sleeps and tries once more on a
\* balance rejection, everything else is the call's answer.
Deliver(c, r) ==
  IF request[c].action = "replace" /\ r = "nobalance" /\ attempt'[c] = 1
    THEN /\ pc' = [pc EXCEPT ![c] = "backoff"]
         /\ UNCHANGED answer
    ELSE /\ pc' = [pc EXCEPT ![c] = "returned"]
         /\ answer' = [answer EXCEPT ![c] = r]

MayStart(k) == index[k] = NoTask

\* MUTANT of SameSignature: the key alone identifies a request.
SameKeyOnly(c, t) == RequestOf(t).key = request[c].key

SameSignature(c, t) == RequestOf(t) = request[c]

\* No entry for the key: create the task and index it.
StartExecution(c) ==
  LET k == request[c].key
      t == <<c, attempt'[c]>>
  IN /\ MayStart(k)
     /\ index' = [index EXCEPT ![k] = t]
     /\ phase' = [phase EXCEPT ![t] = "signing"]
     /\ awaited' = [awaited EXCEPT ![c] = t]
     /\ pc' = [pc EXCEPT ![c] = "awaiting"]
     /\ UNCHANGED <<answer, result>>

\* The key belongs to a request with another signature.
RefuseConflict(c) ==
  LET t == index[request[c].key]
  IN /\ t # NoTask
     /\ ~SameSignature(c, t)
     /\ Deliver(c, "conflict")
     /\ UNCHANGED <<awaited, taskVars, index>>

\* Same request, result known (stored, or the task is done): no new execution.
ReuseResult(c) ==
  LET t == index[request[c].key]
  IN /\ t # NoTask
     /\ SameSignature(c, t)
     /\ result[t] # "none"
     /\ awaited' = [awaited EXCEPT ![c] = t]
     /\ Deliver(c, result[t])
     /\ UNCHANGED <<taskVars, index>>

\* Same request, still executing: await the same task.
ShareExecution(c) ==
  LET t == index[request[c].key]
  IN /\ t # NoTask
     /\ SameSignature(c, t)
     /\ result[t] = "none"
     /\ awaited' = [awaited EXCEPT ![c] = t]
     /\ pc' = [pc EXCEPT ![c] = "awaiting"]
     /\ UNCHANGED <<answer, taskVars, index>>

Execute(c) ==
  /\ \/ StartExecution(c)
     \/ RefuseConflict(c)
     \/ ReuseResult(c)
     \/ ShareExecution(c)
  /\ UNCHANGED <<request, adapterVars, completed, window>>

\* submit inside the confirmation window of its condition: REJECTED at once.
PendingSkip(c) ==
  /\ pc[c] = "idle"
  /\ request[c].action = "submit"
  /\ request[c].condition \in window
  /\ pc' = [pc EXCEPT ![c] = "returned"]
  /\ answer' = [answer EXCEPT ![c] = "pending"]
  /\ UNCHANGED <<request, attempt, awaited, taskVars, adapterVars, cacheVars, window>>

Enter(c) ==
  /\ pc[c] = "idle"
  /\ ~(request[c].action = "submit" /\ request[c].condition \in window)
  /\ UNCHANGED attempt
  /\ Execute(c)

\* The retry of replace: the same request, hence the same key.
RetryReplace(c) ==
  /\ pc[c] = "backoff"
  /\ attempt' = [attempt EXCEPT ![c] = 2]
  /\ Execute(c)

\* Either side marks the condition when a submit times out.
MarkWindow(r) ==
  window' = IF r.action = "submit" THEN window \cup {r.condition} ELSE window

AwaitDone(c) ==
  /\ pc[c] = "awaiting"
  /\ result[awaited[c]] # "none"
  /\ UNCHANGED <<request, attempt, awaited, taskVars, adapterVars, cacheVars, window>>
  /\ Deliver(c, result[awaited[c]])

\* wait_for(shield(task)) gives up; the task goes on.
AwaitTimeout(c) ==
  /\ pc[c] = "awaiting"
  /\ UNCHANGED <<request, attempt, awaited, taskVars, adapterVars, cacheVars>>
  /\ Deliver(c, "timeout")
  /\ MarkWindow(request[c])

------------------------------------------------------------------------------
(* The task's side (_run_operation). *)

Finish(t, r) ==
  /\ phase' = [phase EXCEPT ![t] = "finished"]
  /\ result' = [result EXCEPT ![t] = r]

Signed(t) ==
  /\ phase[t] = "signing"
  /\ phase' = [phase EXCEPT ![t] = "sending"]
  /\ thread' = [thread EXCEPT ![t] = "queued"]
  /\ UNCHANGED <<callVars, result, effect, reply, cacheVars, window>>

SignFails(t) ==
  /\ phase[t] = "signing"
  /\ Finish(t, "failed")
  /\ UNCHANGED <<callVars, adapterVars, cacheVars, window>>

SignTimeout(t) ==
  /\ phase[t] = "signing"
  /\ Finish(t, "timeout")
  /\ MarkWindow(RequestOf(t))
  /\ UNCHANGED <<callVars, adapterVars, cacheVars>>

OutcomeOf(r) == IF r = "error" THEN "failed" ELSE r

\* MUTANT of Listening: a reply that comes after the timeout is still taken.
ListeningForEver(t) == phase[t] \in {"sending", "finished", "stored"}

Listening(t) == phase[t] = "sending"

\* The adapter's answer, or its exception, reaches the task.
TakeReply(t) ==
  /\ Listening(t)
  /\ thread[t] = "over"
  /\ Finish(t, OutcomeOf(reply[t]))
  /\ UNCHANGED <<callVars, adapterVars, cacheVars, window>>

\* wait_for on the executor future gives up: a job that has not started is
\* cancelled with it, one that runs in its thread cannot be stopped.
AdapterTimeout(t) ==
  /\ phase[t] = "sending"
  /\ Finish(t, "timeout")
  /\ MarkWindow(RequestOf(t))
  /\ thread' = [thread EXCEPT ![t] = IF @ = "queued" THEN "none" ELSE @]
  /\ UNCHANGED <<callVars, effect, reply, cacheVars>>

\* MUTANT of TrimIndex: the cache forgets the key, the index does not.
TrimCacheOnly(k) == UNCHANGED index

TrimIndex(k) == index' = [index EXCEPT ![k] = NoTask]

\* OrderedDict assignment followed by move_to_end.
PutLast(s, k) ==
  IF \E i \in 1 .. Len(s) : s[i] = k
    THEN LET i == CHOOSE j \in 1 .. Len(s) : s[j] = k
         IN SubSeq(s, 1, i - 1) \o SubSeq(s, i + 1, Len(s)) \o <<k>>
    ELSE Append(s, k)

\* The done-callback _store_finished: the result replaces the task in the
\* index, and the oldest stored keys leave _completed and the index together.
StoreResult(t) ==
  LET k == RequestOf(t).key
      kept == PutLast(completed, k)
  IN /\ phase[t] = "finished"
     /\ phase' = [phase EXCEPT ![t] = "stored"]
     /\ IF Len(kept) > MaxCached
          THEN /\ completed' = Tail(kept)
               /\ TrimIndex(Head(kept))
          ELSE /\ completed' = kept
               /\ UNCHANGED index
     /\ UNCHANGED <<callVars, result, adapterVars, window>>

------------------------------------------------------------------------------
(* The worker thread and the exchange behind it. *)

JobStarts(t) ==
  /\ thread[t] = "queued"
  /\ thread' = [thread EXCEPT ![t] = "running"]
  /\ UNCHANGED <<callVars, taskVars, effect, reply, cacheVars, window>>

\* replace_order first asks to cancel the old order, then posts the new one
\* whatever the answer to the cancel was.
CancelAnswered(t) ==
  /\ thread[t] = "running"
  /\ RequestOf(t).action = "replace"
  /\ effect[t] = "none"
  /\ effect' = [effect EXCEPT ![t] = "asked"]
  /\ UNCHANGED <<callVars, taskVars, thread, reply, cacheVars, window>>

\* What the adapter may answer although the exchange has the request: posting an order,
\* it takes every exception of the SDK that carries a message (a lost connection and a
\* server error too) for a rejection; any other exception is an error.
Uncertain(action) == IF action = "cancel" THEN {"error"} ELSE {"rejected", "error"}

\* The exchange acts on what it was sent, also after the adapter has taken an error of
\* the connection for the end of it.
Lands(t) ==
  /\ thread[t] = "running" \/ (thread[t] = "over" /\ reply[t] \in Uncertain(RequestOf(t).action))
  /\ effect[t] = IF RequestOf(t).action = "replace" THEN "asked" ELSE "none"
  /\ effect' = [effect EXCEPT ![t] = "landed"]
  /\ UNCHANGED <<callVars, taskVars, thread, reply, cacheVars, window>>

\* A landed request is confirmed, or its response is lost; a refused one is refused by
\* the exchange (of a replace, only after the cancel) or never got there.  An answer to a
\* cancel that names no reason reads as "cancelled".
PossibleReplies(t) ==
  LET action == RequestOf(t).action
  IN IF effect[t] = "landed" THEN {"accepted"} \cup Uncertain(action)
     ELSE IF action = "replace" /\ effect[t] = "none" THEN {"error"}
     ELSE {"rejected", "nobalance", "error"} \cup (IF action = "cancel" THEN {"accepted"} ELSE {})

JobEnds(t) ==
  /\ thread[t] = "running"
  /\ thread' = [thread EXCEPT ![t] = "over"]
  /\ \E r \in PossibleReplies(t) : reply' = [reply EXCEPT ![t] = r]
  /\ UNCHANGED <<callVars, taskVars, effect, cacheVars, window>>

\* The sleep task of the confirmation window runs out.
WindowCloses(m) ==
  /\ m \in window
  /\ window' = window \ {m}
  /\ UNCHANGED <<callVars, taskVars, adapterVars, cacheVars>>

------------------------------------------------------------------------------
CallStep(c) ==
  PendingSkip(c) \/ Enter(c) \/ RetryReplace(c) \/ AwaitDone(c) \/ AwaitTimeout(c)

TaskStep(t) ==
  Signed(t) \/ SignFails(t) \/ SignTimeout(t) \/ TakeReply(t) \/ AdapterTimeout(t) \/ StoreResult(t)

AdapterStep(t) ==
  JobStarts(t) \/ CancelAnswered(t) \/ Lands(t) \/ JobEnds(t)

Next ==
  \/ \E c \in Calls : CallStep(c)
  \/ \E t \in Tasks : TaskStep(t) \/ AdapterStep(t)
  \/ \E m \in Conditions : WindowCloses(m)

Spec == Init /\ [][Next]_vars

------------------------------------------------------------------------------
(* What makes the executor correct. *)

Unsettled(t) == phase[t] \in {"signing", "sending", "finished"}

\* While an execution for a key has not been stored, the index points at it and
\* there is no other one for the key: concurrent calls cannot send an order twice.
SingleExecution ==
  \A t \in Tasks : Unsettled(t) =>
    /\ index[RequestOf(t).key] = t
    /\ \A u \in Tasks : Unsettled(u) /\ RequestOf(u).key = RequestOf(t).key => u = t

\* What a caller is told is what the adapter said of the execution of its own request,
\* whoever started that execution and however late it is read (_execute, submit,
\* replace).  Of an order posted, "accepted" means that it is there, and "nobalance",
\* after which replace tries again, that it never will be; "rejected" is no such proof,
\* since a lost response reads the same (_normalize_api_exception).  Of a cancel a
\* rejection is one, while its "cancelled" may be a refusal.
AnswerMatchesExchange ==
  \A c \in Calls : answer[c] \in {"accepted", "rejected", "nobalance"} =>
    LET t == awaited[c]
        posted == request[c].action # "cancel"
    IN /\ t \in Tasks
       /\ RequestOf(t) = request[c]
       /\ thread[t] = "over" /\ reply[t] = answer[c]
       /\ answer[c] = "accepted" /\ posted => effect[t] = "landed"
       /\ answer[c] = "nobalance" \/ (answer[c] = "rejected" /\ ~posted) => effect[t] # "landed"

\* A key is in the index with a stored result exactly while it is in the bounded
\* cache, once: neither ghost entries that grow without bound nor results that
\* can be evicted twice.
CacheIndexAgree ==
  /\ Len(completed) <= MaxCached
  /\ \A i, j \in 1 .. Len(completed) : completed[i] = completed[j] => i = j
  /\ \A k \in Keys :
       (\E i \in 1 .. Len(completed) : completed[i] = k)
         <=> (index[k] # NoTask /\ phase[index[k]] = "stored")

\* What the index says of a key is so: it points at the one execution under way,
\* or at a result the cache still holds (_execute, _store_task_result,
\* _trim_completed_cache), whatever callers, timeouts and evictions interleave.
IndexTrue == SingleExecution /\ CacheIndexAgree

\* The index implements the promise "one execution at a time, one outcome, and
\* only a known outcome is forgotten".
Stage(k) ==
  IF index[k] = NoTask THEN "fresh"
  ELSE IF result[index[k]] = "none" THEN "executing" ELSE "settled"

Outcome(k) == IF index[k] = NoTask THEN "none" ELSE result[index[k]]

Promise == INSTANCE AtMostOnceExecution
             WITH Outcomes <- Outcomes, Unknown <- "none",
                  stage <- [k \in Keys |-> Stage(k)],
                  outcome <- [k \in Keys |-> Outcome(k)]

ImplementsPromise == Promise!Spec

==============================================================================
