------------------------- MODULE OrderExecutorProofs -------------------------
(***************************************************************************)
(* Proofs about OrderExecutor, for every set of calls, requests, keys and  *)
(* conditions and every cache capacity.                                    *)
(***************************************************************************)
EXTENDS OrderExecutor, SequenceTheorems, TLAPS

\* What the phase of a task says about the rest of it.
TaskInv ==
  \A t \in Tasks :
    /\ phase[t] \in {"unused", "signing", "sending"} <=> result[t] = "none"
    /\ phase[t] \in {"unused", "signing"} =>
         thread[t] = "none" /\ effect[t] = "none" /\ reply[t] = "none"

\* The index holds started tasks under their own key, and every task that is
\* not stored yet.
IndexInv ==
  /\ \A k \in Keys : index[k] # NoTask =>
       phase[index[k]] # "unused" /\ RequestOf(index[k]).key = k
  /\ \A t \in Tasks : Unsettled(t) => index[RequestOf(t).key] = t

\* What the adapter's reply says about the exchange, and a definitive result
\* about the reply.
AdapterInv ==
  \A t \in Tasks :
    /\ (reply[t] # "none") <=> (thread[t] = "over")
    /\ reply[t] = "accepted" /\ RequestOf(t).action # "cancel" => effect[t] = "landed"
    /\ reply[t] = "nobalance" => effect[t] # "landed"
    /\ reply[t] = "rejected" /\ RequestOf(t).action = "cancel" => effect[t] # "landed"
    /\ result[t] \in {"accepted", "rejected", "nobalance"} => reply[t] = result[t]

\* A call awaits, and answers from, a started task of its own request.
CallInv ==
  \A c \in Calls :
    /\ pc[c] = "awaiting" => awaited[c] # NoTask
    /\ awaited[c] # NoTask =>
         phase[awaited[c]] # "unused" /\ RequestOf(awaited[c]) = request[c]
    /\ answer[c] \in {"accepted", "rejected", "nobalance"} =>
         awaited[c] # NoTask /\ result[awaited[c]] = answer[c]
    /\ answer[c] # "none" => pc[c] = "returned"

\* The tasks a call may still create do not exist yet.
FreshInv ==
  \A c \in Calls :
    /\ pc[c] = "idle" => attempt[c] = 1 /\ phase[<<c, 1>>] = "unused"
    /\ pc[c] = "backoff" => attempt[c] = 1
    /\ attempt[c] = 1 => phase[<<c, 2>>] = "unused"

IInv == TypeOK /\ TaskInv /\ IndexInv /\ AdapterInv /\ CallInv /\ FreshInv /\ CacheIndexAgree
------------------------------------------------------------------------------
\* A key that is not in a sequence is appended by PutLast.
LEMMA PutLastFresh ==
  ASSUME NEW s, NEW k, ~ \E i \in 1 .. Len(s) : s[i] = k
  PROVE  PutLast(s, k) = Append(s, k)
  BY DEF PutLast

LEMMA PutLastType ==
  ASSUME NEW s \in Seq(Keys), NEW k \in Keys
  PROVE  PutLast(s, k) \in Seq(Keys) /\ PutLast(s, k) # <<>>
<1>1. CASE ~ \E i \in 1 .. Len(s) : s[i] = k
  BY <1>1, PutLastFresh, AppendProperties
<1>2. CASE \E i \in 1 .. Len(s) : s[i] = k
  <2> DEFINE i == CHOOSE j \in 1 .. Len(s) : s[j] = k
             l == SubSeq(s, 1, i - 1)
             r == SubSeq(s, i + 1, Len(s))
  <2>1. i \in 1 .. Len(s) /\ Len(s) \in Nat
    BY <1>2, LenProperties
  <2> HIDE DEF i
  <2>a. \A j \in 1 .. Len(s) : s[j] \in Keys
    BY ElementOfSeq
  <2>2. l \in Seq(Keys)
    <3>1. i - 1 \in Int /\ \A j \in 1 .. i - 1 : s[j] \in Keys
      BY <2>1, <2>a
    <3>2. QED BY <3>1, SubSeqProperties
  <2>3. r \in Seq(Keys)
    <3>1. i + 1 \in Int /\ Len(s) \in Int /\ \A j \in i + 1 .. Len(s) : s[j] \in Keys
      BY <2>1, <2>a
    <3>2. QED BY <3>1, SubSeqProperties
  <2>4. <<k>> \in Seq(Keys) /\ Len(<<k>>) = 1
    OBVIOUS
  <2>5. l \o r \o <<k>> \in Seq(Keys) /\ Len(l \o r \o <<k>>) = Len(l \o r) + 1
    BY <2>2, <2>3, <2>4, ConcatProperties
  <2>6. Len(l \o r) \in Nat
    BY <2>2, <2>3, ConcatProperties, LenProperties
  <2>7. PutLast(s, k) = l \o r \o <<k>>
    BY <1>2 DEF PutLast, i
  <2> HIDE DEF l, r
  <2>8. QED BY <2>5, <2>6, <2>7, EmptySeq
<1>3. QED BY <1>1, <1>2

\* Every reachable state is well typed.
LEMMA TypeInit == Init => TypeOK
  BY RequestsAssumption, NoTaskAssumption DEF Init, TypeOK, Tasks

LEMMA DeliverType ==
  ASSUME TypeOK, NEW c \in Calls, NEW r \in Outcomes \cup Refusals \cup {"none"}, Deliver(c, r)
  PROVE  /\ pc' \in [Calls -> {"idle", "awaiting", "backoff", "returned"}]
         /\ answer' \in [Calls -> Outcomes \cup Refusals \cup {"none"}]
<1>1. pc' \in {[pc EXCEPT ![c] = "backoff"], [pc EXCEPT ![c] = "returned"]}
  BY DEF Deliver
<1>2. answer' \in {answer, [answer EXCEPT ![c] = r]}
  BY DEF Deliver
<1>3. QED BY <1>1, <1>2 DEF TypeOK

LEMMA TypeStep == TypeOK /\ CallInv /\ [Next]_vars => TypeOK'
<1> SUFFICES ASSUME TypeOK, CallInv, [Next]_vars PROVE TypeOK'
  OBVIOUS
<1> USE RequestsAssumption, NoTaskAssumption
    DEF TypeOK, callVars, taskVars, adapterVars, cacheVars, Outcomes, Refusals
<1>1. ASSUME NEW c \in Calls, PendingSkip(c) PROVE TypeOK'
  BY <1>1 DEF PendingSkip
<1>2. ASSUME NEW c \in Calls, attempt' \in [Calls -> {1, 2}], Execute(c) PROVE TypeOK'
  <2>1. CASE StartExecution(c)
    BY <1>2, <2>1 DEF Execute, StartExecution, RequestShape, Tasks
  <2>2. CASE RefuseConflict(c)
    BY <1>2, <2>2, DeliverType DEF Execute, RefuseConflict
  <2>3. CASE ReuseResult(c)
    <3>1. index[request[c].key] \in Tasks
      BY <2>3 DEF ReuseResult, RequestShape
    <3>2. QED BY <1>2, <2>3, <3>1, DeliverType DEF Execute, ReuseResult
  <2>4. CASE ShareExecution(c)
    BY <1>2, <2>4 DEF Execute, ShareExecution, RequestShape
  <2>5. QED BY <1>2, <2>1, <2>2, <2>3, <2>4 DEF Execute
<1>3. ASSUME NEW c \in Calls, Enter(c) PROVE TypeOK'
  BY <1>2, <1>3 DEF Enter
<1>4. ASSUME NEW c \in Calls, RetryReplace(c) PROVE TypeOK'
  BY <1>2, <1>4 DEF RetryReplace
<1>5. ASSUME NEW c \in Calls, AwaitDone(c) PROVE TypeOK'
  <2>1. awaited[c] \in Tasks
    BY <1>5 DEF AwaitDone, CallInv
  <2>2. QED BY <1>5, <2>1, DeliverType DEF AwaitDone
<1>6. ASSUME NEW c \in Calls, AwaitTimeout(c) PROVE TypeOK'
  BY <1>6, DeliverType DEF AwaitTimeout, MarkWindow, RequestShape
<1>7. ASSUME NEW t \in Tasks, Signed(t) PROVE TypeOK'
  BY <1>7 DEF Signed
<1>8. ASSUME NEW t \in Tasks, SignFails(t) PROVE TypeOK'
  BY <1>8 DEF SignFails, Finish
<1>9. ASSUME NEW t \in Tasks, SignTimeout(t) PROVE TypeOK'
  BY <1>9 DEF SignTimeout, Finish, MarkWindow, RequestOf, Tasks, RequestShape
<1>10. ASSUME NEW t \in Tasks, TakeReply(t) PROVE TypeOK'
  BY <1>10 DEF TakeReply, Finish, OutcomeOf
<1>11. ASSUME NEW t \in Tasks, AdapterTimeout(t) PROVE TypeOK'
  BY <1>11 DEF AdapterTimeout, Finish, MarkWindow, RequestOf, Tasks, RequestShape
<1>12. ASSUME NEW t \in Tasks, StoreResult(t) PROVE TypeOK'
  <2> DEFINE k == RequestOf(t).key
             kept == PutLast(completed, k)
  <2>1. k \in Keys
    BY DEF RequestOf, Tasks, RequestShape
  <2>2. kept \in Seq(Keys) /\ kept # <<>>
    BY <2>1, PutLastType
  <2>3. Tail(kept) \in Seq(Keys) /\ Head(kept) \in Keys
    BY <2>2, HeadTailProperties
  <2> HIDE DEF kept
  <2>4. completed' \in Seq(Keys) /\ index' \in [Keys -> Tasks \cup {NoTask}]
    BY <1>12, <2>2, <2>3 DEF StoreResult, TrimIndex, kept
  <2>5. QED BY <1>12, <2>4 DEF StoreResult
<1>13. ASSUME NEW t \in Tasks, AdapterStep(t) PROVE TypeOK'
  BY <1>13 DEF AdapterStep, JobStarts, CancelAnswered, Lands, Uncertain, JobEnds, PossibleReplies
<1>14. ASSUME NEW m \in Conditions, WindowCloses(m) PROVE TypeOK'
  BY <1>14 DEF WindowCloses
<1>15. CASE UNCHANGED vars
  BY <1>15 DEF vars
<1>16. QED
  BY <1>1, <1>3, <1>4, <1>5, <1>6, <1>7, <1>8, <1>9, <1>10, <1>11, <1>12, <1>13, <1>14, <1>15
     DEF Next, CallStep, TaskStep

------------------------------------------------------------------------------
(* One lemma per part of the invariant. *)

\* A call step starts an execution or leaves tasks, adapter and cache alone.
LEMMA CallStepFrame ==
  ASSUME NEW c \in Calls, CallStep(c)
  PROVE  /\ UNCHANGED <<request, result, adapterVars, completed>>
         /\ StartExecution(c) \/ UNCHANGED <<phase, index>>
<1> USE DEF taskVars, adapterVars, cacheVars
<1>1. CASE Execute(c)
  <2>1. CASE StartExecution(c)
    BY <1>1, <2>1 DEF Execute, StartExecution
  <2>2. CASE RefuseConflict(c) \/ ReuseResult(c) \/ ShareExecution(c)
    BY <1>1, <2>2 DEF Execute, RefuseConflict, ReuseResult, ShareExecution
  <2>3. QED BY <1>1, <2>1, <2>2 DEF Execute
<1>2. CASE PendingSkip(c) \/ AwaitDone(c) \/ AwaitTimeout(c)
  BY <1>2 DEF PendingSkip, AwaitDone, AwaitTimeout
<1>3. QED BY <1>1, <1>2 DEF CallStep, Enter, RetryReplace

\* When a call executes, the task it may create does not exist yet.
LEMMA ExecuteFresh ==
  ASSUME TypeOK, FreshInv, NEW c \in Calls, Enter(c) \/ RetryReplace(c)
  PROVE  /\ Execute(c)
         /\ pc[c] \in {"idle", "backoff"}
         /\ attempt'[c] \in {1, 2}
         /\ \A d \in Calls : d # c => attempt'[d] = attempt[d]
         /\ pc[c] = "backoff" => attempt'[c] = 2
         /\ <<c, attempt'[c]>> \in Tasks
         /\ phase[<<c, attempt'[c]>>] = "unused"
<1>1. CASE Enter(c)
  BY <1>1 DEF Enter, TypeOK, FreshInv, Tasks
<1>2. CASE RetryReplace(c)
  BY <1>2 DEF RetryReplace, TypeOK, FreshInv, Tasks
<1>3. QED BY <1>1, <1>2

\* What delivering a result changes: the call returns it, or sleeps before its retry.
LEMMA DeliverEffect ==
  ASSUME TypeOK, NEW c \in Calls, NEW r, Deliver(c, r)
  PROVE  /\ \A d \in Calls : d # c => pc'[d] = pc[d] /\ answer'[d] = answer[d]
         /\ \/ pc'[c] = "backoff" /\ attempt'[c] = 1 /\ answer'[c] = answer[c]
            \/ pc'[c] = "returned" /\ answer'[c] = r
<1>1. CASE request[c].action = "replace" /\ r = "nobalance" /\ attempt'[c] = 1
  BY <1>1 DEF Deliver, TypeOK
<1>2. CASE ~(request[c].action = "replace" /\ r = "nobalance" /\ attempt'[c] = 1)
  BY <1>2 DEF Deliver, TypeOK
<1>3. QED BY <1>1, <1>2

\* What executing changes of the call and of the tasks.
LEMMA ExecuteEffect ==
  ASSUME TypeOK, NEW c \in Calls, Execute(c)
  PROVE  /\ \A d \in Calls : d # c => pc'[d] = pc[d]
         /\ pc'[c] \in {"awaiting", "backoff", "returned"}
         /\ pc'[c] = "backoff" => attempt'[c] = 1
         /\ \A u \in Tasks : u # <<c, attempt'[c]>> => phase'[u] = phase[u]
<1> USE DEF TypeOK, taskVars
<1>1. CASE StartExecution(c)
  BY <1>1 DEF StartExecution
<1>2. CASE RefuseConflict(c)
  BY <1>2, DeliverEffect DEF RefuseConflict
<1>3. CASE ReuseResult(c)
  BY <1>3, DeliverEffect DEF ReuseResult
<1>4. CASE ShareExecution(c)
  BY <1>4 DEF ShareExecution
<1>5. QED BY <1>1, <1>2, <1>3, <1>4 DEF Execute

LEMMA StartFresh ==
  ASSUME TypeOK, FreshInv, NEW c \in Calls, CallStep(c), StartExecution(c), phase' # phase
  PROVE  Enter(c) \/ RetryReplace(c)
  BY DEF CallStep, PendingSkip, AwaitDone, AwaitTimeout, taskVars

LEMMA TaskStepInv == IInv /\ [Next]_vars => TaskInv'
<1> SUFFICES ASSUME IInv, [Next]_vars PROVE TaskInv'
  OBVIOUS
<1> USE DEF TaskInv, IInv, TypeOK
<1>1. ASSUME NEW c \in Calls, CallStep(c) PROVE TaskInv'
  <2>1. CASE phase' = phase
    BY <1>1, <2>1, CallStepFrame DEF adapterVars
  <2>2. CASE phase' # phase
    <3>1. StartExecution(c) /\ UNCHANGED <<request, result, adapterVars, completed>>
      BY <1>1, <2>2, CallStepFrame
    <3>2. <<c, attempt'[c]>> \in Tasks /\ phase[<<c, attempt'[c]>>] = "unused"
      BY <1>1, <2>2, <3>1, StartFresh, ExecuteFresh
    <3>3. QED BY <3>1, <3>2 DEF StartExecution, adapterVars
  <2>3. QED BY <2>1, <2>2
<1>2. ASSUME NEW t \in Tasks, TaskStep(t) PROVE TaskInv'
  <2>1. CASE Signed(t)
    BY <2>1 DEF Signed
  <2>2. CASE SignFails(t)
    BY <2>2 DEF SignFails, Finish, adapterVars
  <2>3. CASE SignTimeout(t)
    BY <2>3 DEF SignTimeout, Finish, adapterVars
  <2>4. CASE TakeReply(t)
    BY <2>4 DEF TakeReply, Listening, Finish, OutcomeOf, adapterVars, AdapterInv
  <2>5. CASE AdapterTimeout(t)
    BY <2>5 DEF AdapterTimeout, Finish, adapterVars
  <2>6. CASE StoreResult(t)
    BY <2>6 DEF StoreResult, adapterVars
  <2>7. QED BY <1>2, <2>1, <2>2, <2>3, <2>4, <2>5, <2>6 DEF TaskStep
<1>3. ASSUME NEW t \in Tasks, AdapterStep(t) PROVE TaskInv'
  BY <1>3 DEF AdapterStep, JobStarts, CancelAnswered, Lands, JobEnds, taskVars
<1>4. CASE UNCHANGED <<taskVars, adapterVars>>
  BY <1>4 DEF taskVars, adapterVars
<1>5. QED
  BY <1>1, <1>2, <1>3, <1>4 DEF Next, WindowCloses, vars

\* Storing a result appends its key; if that overfills the cache, the oldest
\* key, which has a stored result, leaves cache and index together.
LEMMA StoreFacts ==
  ASSUME IInv, NEW t \in Tasks, StoreResult(t), NEW k, k = RequestOf(t).key,
         NEW n, n = Len(completed)
  PROVE  /\ k \in Keys /\ index[k] = t /\ n \in Nat
         /\ \A i \in 1 .. n : completed[i] # k
         /\ \/ /\ n < MaxCached
               /\ completed' = Append(completed, k)
               /\ UNCHANGED index
            \/ /\ n = MaxCached
               /\ Len(completed') = n
               /\ \A i \in 1 .. n : completed'[i] = IF i < n THEN completed[i + 1] ELSE k
               /\ completed[1] \in Keys
               /\ index[completed[1]] # NoTask /\ phase[index[completed[1]]] = "stored"
               /\ index' = [index EXCEPT ![completed[1]] = NoTask]
<1> USE DEF IInv, TypeOK
<1>1. k \in Keys /\ n \in Nat
  BY RequestsAssumption, LenProperties DEF RequestOf, Tasks, RequestShape
<1>2. phase[t] = "finished" /\ index[k] = t
  BY DEF StoreResult, IndexInv, Unsettled
<1>3. \A i \in 1 .. n : completed[i] # k
  BY <1>1, <1>2 DEF CacheIndexAgree
<1> DEFINE kept == Append(completed, k)
<1>4. PutLast(completed, k) = kept
  BY <1>3, PutLastFresh
<1>5. /\ kept \in Seq(Keys) /\ kept # <<>> /\ Len(kept) = n + 1
      /\ \A i \in 1 .. n : kept[i] = completed[i]
      /\ kept[n + 1] = k
  BY <1>1, AppendProperties
<1> HIDE DEF kept
<1>6. n <= MaxCached
  BY DEF CacheIndexAgree
<1>7. CASE n < MaxCached
  BY <1>1, <1>2, <1>3, <1>4, <1>5, <1>7, MaxCachedAssumption DEF StoreResult
<1>8. CASE n = MaxCached
  <2>1. /\ Len(Tail(kept)) = n
        /\ Head(kept) = kept[1]
        /\ \A i \in 1 .. n : Tail(kept)[i] = kept[i + 1]
    BY <1>1, <1>5, HeadTailProperties
  <2>2. 1 \in 1 .. n /\ completed[1] \in Keys /\ Head(kept) = completed[1]
    BY <1>1, <1>5, <1>8, <2>1, MaxCachedAssumption, ElementOfSeq
  <2>3. index[completed[1]] # NoTask /\ phase[index[completed[1]]] = "stored"
    BY <2>2 DEF CacheIndexAgree
  <2>4. \A i \in 1 .. n : Tail(kept)[i] = IF i < n THEN completed[i + 1] ELSE k
    BY <1>1, <1>5, <2>1
  <2>5. completed' = Tail(kept) /\ index' = [index EXCEPT ![completed[1]] = NoTask]
    BY <1>1, <1>4, <1>5, <1>8, <2>2, MaxCachedAssumption DEF StoreResult, TrimIndex
  <2>6. QED BY <1>1, <1>2, <1>3, <1>8, <2>1, <2>2, <2>3, <2>4, <2>5
<1>9. QED BY <1>1, <1>6, <1>7, <1>8, MaxCachedAssumption

LEMMA IndexStepInv == IInv /\ [Next]_vars => IndexInv'
<1> SUFFICES ASSUME IInv, [Next]_vars PROVE IndexInv'
  OBVIOUS
<1> USE NoTaskAssumption DEF IndexInv, IInv, TypeOK, Unsettled, RequestOf
<1>1. ASSUME NEW c \in Calls, CallStep(c) PROVE IndexInv'
  <2>1. CASE UNCHANGED <<phase, index>>
    BY <1>1, <2>1, CallStepFrame
  <2>2. CASE ~ UNCHANGED <<phase, index>>
    <3>1. StartExecution(c) /\ UNCHANGED request
      BY <1>1, <2>2, CallStepFrame
    <3> DEFINE t == <<c, attempt'[c]>>
               k == request[c].key
    <3>2. t \in Tasks /\ phase[t] = "unused"
      <4>1. Enter(c) \/ RetryReplace(c)
        BY <1>1, <3>1, <2>2 DEF CallStep, PendingSkip, AwaitDone, AwaitTimeout, taskVars, cacheVars
      <4>2. QED BY <4>1, ExecuteFresh
    <3>3. k \in Keys /\ index[k] = NoTask
      BY <3>1, RequestsAssumption DEF StartExecution, MayStart, RequestShape
    <3>4. index' = [index EXCEPT ![k] = t] /\ phase' = [phase EXCEPT ![t] = "signing"]
      BY <3>1 DEF StartExecution
    <3>5. t[1] = c
      OBVIOUS
    <3> HIDE DEF t
    <3>6. ASSUME NEW u \in Tasks, Unsettled(u)' PROVE (index[RequestOf(u).key] = u)'
      BY <3>1, <3>2, <3>3, <3>4, <3>5, <3>6
    <3>7. ASSUME NEW j \in Keys, index'[j] # NoTask
          PROVE  phase'[index'[j]] # "unused" /\ request'[index'[j][1]].key = j
      <4>1. CASE j = k
        BY <3>1, <3>2, <3>3, <3>4, <3>5, <4>1
      <4>2. CASE j # k
        BY <3>1, <3>2, <3>3, <3>4, <3>7, <4>2
      <4>3. QED BY <4>1, <4>2
    <3>8. QED BY <3>6, <3>7
  <2>3. QED BY <2>1, <2>2
<1>2. ASSUME NEW t \in Tasks, StoreResult(t) PROVE IndexInv'
  <2>1. /\ phase[t] = "finished"
        /\ phase' = [phase EXCEPT ![t] = "stored"]
        /\ UNCHANGED request
    BY <1>2 DEF StoreResult, callVars
  <2>2. CASE UNCHANGED index
    BY <2>1, <2>2
  <2>3. CASE ~ UNCHANGED index
    <3>1. PICK h \in Keys : /\ index' = [index EXCEPT ![h] = NoTask]
                           /\ index[h] # NoTask /\ phase[index[h]] = "stored"
      BY <1>2, <2>3, StoreFacts
    <3>2. QED BY <2>1, <3>1
  <2>4. QED BY <2>2, <2>3
<1>3. ASSUME NEW t \in Tasks, TaskStep(t), ~ StoreResult(t) PROVE IndexInv'
  BY <1>3 DEF TaskStep, Signed, SignFails, SignTimeout, TakeReply, AdapterTimeout, Finish, cacheVars, callVars, Listening
<1>4. ASSUME NEW t \in Tasks, AdapterStep(t) PROVE IndexInv'
  BY <1>4 DEF AdapterStep, JobStarts, CancelAnswered, Lands, JobEnds, taskVars, cacheVars, callVars
<1>5. CASE UNCHANGED <<callVars, taskVars, cacheVars>>
  BY <1>5 DEF taskVars, cacheVars, callVars
<1>6. QED
  BY <1>1, <1>2, <1>3, <1>4, <1>5 DEF Next, WindowCloses, vars

\* No step changes what a request is.
LEMMA RequestsStay ==
  ASSUME [Next]_vars
  PROVE  /\ request' = request
         /\ \A t \in Tasks : RequestOf(t)' = RequestOf(t)
<1>1. ASSUME NEW c \in Calls, CallStep(c) PROVE request' = request
  BY <1>1, CallStepFrame
<1>2. ASSUME NEW t \in Tasks, TaskStep(t) PROVE request' = request
  BY <1>2 DEF TaskStep, Signed, SignFails, SignTimeout, TakeReply, AdapterTimeout, StoreResult, callVars
<1>3. ASSUME NEW t \in Tasks, AdapterStep(t) PROVE request' = request
  BY <1>3 DEF AdapterStep, JobStarts, CancelAnswered, Lands, JobEnds, callVars
<1>4. ASSUME NEW m \in Conditions, WindowCloses(m) PROVE request' = request
  BY <1>4 DEF WindowCloses, callVars
<1>5. request' = request
  BY <1>1, <1>2, <1>3, <1>4 DEF Next, vars, callVars
<1>6. QED BY <1>5 DEF RequestOf

LEMMA AdapterStepInv == IInv /\ [Next]_vars => AdapterInv'
<1> SUFFICES ASSUME IInv, [Next]_vars PROVE AdapterInv'
  OBVIOUS
<1>0. \A t \in Tasks : RequestOf(t)' = RequestOf(t)
  BY RequestsStay
<1> USE DEF AdapterInv, TaskInv, IInv, TypeOK
<1>1. ASSUME NEW c \in Calls, CallStep(c) PROVE AdapterInv'
  BY <1>0, <1>1, CallStepFrame DEF adapterVars
<1>2. ASSUME NEW t \in Tasks, TaskStep(t) PROVE AdapterInv'
  <2>1. CASE Signed(t)
    BY <1>0, <2>1 DEF Signed
  <2>2. CASE SignFails(t)
    BY <1>0, <2>2 DEF SignFails, Finish, adapterVars
  <2>3. CASE SignTimeout(t)
    BY <1>0, <2>3 DEF SignTimeout, Finish, adapterVars
  <2>4. CASE TakeReply(t)
    BY <1>0, <2>4 DEF TakeReply, Listening, Finish, OutcomeOf, adapterVars
  <2>5. CASE AdapterTimeout(t)
    BY <1>0, <2>5 DEF AdapterTimeout, Finish, adapterVars
  <2>6. CASE StoreResult(t)
    BY <1>0, <2>6 DEF StoreResult, adapterVars
  <2>7. QED BY <1>2, <2>1, <2>2, <2>3, <2>4, <2>5, <2>6 DEF TaskStep
<1>3. ASSUME NEW t \in Tasks, AdapterStep(t) PROVE AdapterInv'
  <2>1. CASE JobStarts(t)
    BY <1>0, <2>1 DEF JobStarts, taskVars
  <2>2. CASE CancelAnswered(t)
    BY <1>0, <2>2 DEF CancelAnswered, taskVars
  <2>3. CASE Lands(t)
    BY <1>0, <2>3 DEF Lands, Uncertain, taskVars
  <2>4. CASE JobEnds(t)
    BY <1>0, <2>4 DEF JobEnds, PossibleReplies, Uncertain, taskVars
  <2>5. QED BY <1>3, <2>1, <2>2, <2>3, <2>4 DEF AdapterStep
<1>4. CASE UNCHANGED <<taskVars, adapterVars>>
  BY <1>0, <1>4 DEF taskVars, adapterVars
<1>5. QED
  BY <1>1, <1>2, <1>3, <1>4 DEF Next, WindowCloses, vars

LEMMA TasksOf ==
  ASSUME NEW c \in Calls
  PROVE  <<c, 1>> \in Tasks /\ <<c, 2>> \in Tasks /\ <<c, 1>> # <<c, 2>>
  BY DEF Tasks

LEMMA FreshStepInv == IInv /\ [Next]_vars => FreshInv'
<1> SUFFICES ASSUME TypeOK, FreshInv, [Next]_vars PROVE FreshInv'
  BY DEF IInv
<1>1. ASSUME NEW c \in Calls, CallStep(c) PROVE FreshInv'
  <2>1. CASE Enter(c) \/ RetryReplace(c)
    <3> DEFINE t == <<c, attempt'[c]>>
    <3>0. /\ Execute(c)
          /\ pc[c] = "backoff" => attempt'[c] = 2
          /\ \A d \in Calls : d # c => attempt'[d] = attempt[d]
      BY <2>1, ExecuteFresh
    <3> HIDE DEF t
    <3>1. \A d \in Calls : d # c => pc'[d] = pc[d] /\ attempt'[d] = attempt[d]
      BY <3>0, ExecuteEffect
    <3>2. \A u \in Tasks : u # t => phase'[u] = phase[u]
      BY <3>0, ExecuteEffect DEF t
    <3>3. pc'[c] # "idle" /\ (pc'[c] = "backoff" => attempt'[c] = 1)
      BY <3>0, ExecuteEffect
    <3> USE DEF t
    <3>4. attempt'[c] = 1 => attempt[c] = 1 /\ <<c, 2>> # t
      BY <2>1 DEF Enter, RetryReplace, TypeOK
    <3>5. \A d \in Calls : d # c => <<d, 1>> # t /\ <<d, 2>> # t
      OBVIOUS
    <3> HIDE DEF t
    <3>6. QED BY TasksOf, <3>1, <3>2, <3>3, <3>4, <3>5 DEF FreshInv
  <2>2. CASE PendingSkip(c)
    BY <2>2 DEF PendingSkip, taskVars, TypeOK, FreshInv
  <2>3. CASE AwaitDone(c) \/ AwaitTimeout(c)
    <3>1. UNCHANGED <<phase, attempt>>
      BY <2>3 DEF AwaitDone, AwaitTimeout, taskVars
    <3>2. PICK r : Deliver(c, r)
      BY <2>3 DEF AwaitDone, AwaitTimeout
    <3>3. QED BY <3>1, <3>2, DeliverEffect DEF FreshInv
  <2>4. QED BY <1>1, <2>1, <2>2, <2>3 DEF CallStep
<1>2. ASSUME NEW t \in Tasks, TaskStep(t) PROVE FreshInv'
  <2>1. phase[t] # "unused"
    BY <1>2 DEF TaskStep, Signed, SignFails, SignTimeout, TakeReply, Listening, AdapterTimeout, StoreResult
  <2>2. phase' \in {[phase EXCEPT ![t] = "sending"], [phase EXCEPT ![t] = "finished"],
                   [phase EXCEPT ![t] = "stored"]}
    BY <1>2 DEF TaskStep, Signed, SignFails, SignTimeout, TakeReply, AdapterTimeout, StoreResult, Finish
  <2>3. UNCHANGED <<pc, attempt>>
    BY <1>2 DEF TaskStep, Signed, SignFails, SignTimeout, TakeReply, AdapterTimeout, StoreResult, callVars
  <2>4. \A u \in Tasks : phase[u] = "unused" => phase'[u] = "unused"
    BY <2>1, <2>2 DEF TypeOK
  <2>5. QED BY TasksOf, <2>3, <2>4 DEF FreshInv
<1>3. ASSUME NEW t \in Tasks, AdapterStep(t) PROVE FreshInv'
  BY <1>3 DEF AdapterStep, JobStarts, CancelAnswered, Lands, JobEnds, taskVars, callVars, FreshInv
<1>4. CASE UNCHANGED <<taskVars, callVars>>
  BY <1>4 DEF taskVars, callVars, FreshInv
<1>5. QED
  BY <1>1, <1>2, <1>3, <1>4 DEF Next, WindowCloses, vars

\* A task step lets started tasks stay started and known results stay as they are.
LEMMA TaskStepMonotone ==
  ASSUME TypeOK, TaskInv, NEW t \in Tasks, TaskStep(t)
  PROVE  /\ UNCHANGED callVars
         /\ \A u \in Tasks : phase[u] # "unused" => phase'[u] # "unused"
         /\ \A u \in Tasks : result[u] # "none" => result'[u] = result[u]
<1> USE DEF TypeOK, TaskInv
<1>1. CASE Signed(t)
  BY <1>1 DEF Signed
<1>2. CASE SignFails(t)
  BY <1>2 DEF SignFails, Finish
<1>3. CASE SignTimeout(t)
  BY <1>3 DEF SignTimeout, Finish
<1>4. CASE TakeReply(t)
  BY <1>4 DEF TakeReply, Listening, Finish
<1>5. CASE AdapterTimeout(t)
  BY <1>5 DEF AdapterTimeout, Finish
<1>6. CASE StoreResult(t)
  BY <1>6 DEF StoreResult
<1>7. QED BY <1>1, <1>2, <1>3, <1>4, <1>5, <1>6 DEF TaskStep

LEMMA CallStepInv == IInv /\ [Next]_vars => CallInv'
<1> SUFFICES ASSUME TypeOK, TaskInv, IndexInv, FreshInv, CallInv, [Next]_vars PROVE CallInv'
  BY DEF IInv
<1> DEFINE Good(c) ==
      /\ pc[c] = "awaiting" => awaited[c] # NoTask
      /\ awaited[c] # NoTask =>
           phase[awaited[c]] # "unused" /\ RequestOf(awaited[c]) = request[c]
      /\ answer[c] \in {"accepted", "rejected", "nobalance"} =>
           awaited[c] # NoTask /\ result[awaited[c]] = answer[c]
      /\ answer[c] # "none" => pc[c] = "returned"
<1>1. ASSUME NEW c \in Calls, Enter(c) \/ RetryReplace(c) PROVE CallInv'
  <2> DEFINE k == request[c].key
             t == <<c, attempt'[c]>>
  <2>1. Execute(c) /\ t \in Tasks /\ phase[t] = "unused" /\ answer[c] = "none"
    BY <1>1, ExecuteFresh DEF CallInv, TypeOK
  <2>2. k \in Keys /\ UNCHANGED <<request, result>>
    BY <2>1, RequestsAssumption DEF Execute, StartExecution, RefuseConflict, ReuseResult,
       ShareExecution, taskVars, TypeOK, RequestShape
  <2>3. \A u \in Tasks : phase[u] # "unused" => phase'[u] # "unused"
    BY <2>1, ExecuteEffect
  <2>4. index[k] # NoTask => index[k] \in Tasks /\ phase[index[k]] # "unused"
    BY <2>2 DEF IndexInv, TypeOK
  <2>5. ASSUME NEW d \in Calls, d # c PROVE Good(d)'
    <3>1. pc'[d] = pc[d]
      BY <2>1, <2>5, ExecuteEffect
    <3>2. awaited'[d] = awaited[d]
      BY <2>1, <2>5 DEF Execute, StartExecution, RefuseConflict, ReuseResult, ShareExecution, TypeOK
    <3>3. answer'[d] = answer[d]
      BY <2>1, <2>5, DeliverEffect DEF Execute, StartExecution, RefuseConflict, ReuseResult, ShareExecution
    <3>4. QED BY <2>2, <2>3, <3>1, <3>2, <3>3 DEF CallInv, TypeOK, RequestOf
  <2>6. CASE StartExecution(c)
    <3>1. awaited'[c] = t /\ phase'[t] = "signing" /\ answer'[c] = "none" /\ t[1] = c
      BY <2>1, <2>6 DEF StartExecution, TypeOK
    <3> HIDE DEF t
    <3>2. Good(c)'
      BY <2>1, <2>2, <3>1, NoTaskAssumption DEF RequestOf
    <3>3. QED BY <2>5, <3>2 DEF CallInv
  <2>7. CASE RefuseConflict(c)
    <3>1. pc'[c] = "returned" /\ answer'[c] = "conflict"
      BY <2>7, DeliverEffect DEF RefuseConflict, Deliver, TypeOK
    <3>2. awaited' = awaited
      BY <2>7 DEF RefuseConflict
    <3>3. Good(c)'
      BY <2>2, <2>3, <3>1, <3>2 DEF CallInv, TypeOK, RequestOf
    <3>4. QED BY <2>5, <3>3 DEF CallInv
  <2>8. CASE ReuseResult(c)
    <3>1. index[k] # NoTask /\ RequestOf(index[k]) = request[c] /\ awaited'[c] = index[k]
      BY <2>8 DEF ReuseResult, SameSignature, TypeOK
    <3>2. \/ pc'[c] = "backoff" /\ answer'[c] = "none"
          \/ pc'[c] = "returned" /\ answer'[c] = result[index[k]]
      BY <2>1, <2>8, DeliverEffect DEF ReuseResult
    <3>3. Good(c)'
      BY <2>2, <2>3, <2>4, <3>1, <3>2 DEF RequestOf
    <3>4. QED BY <2>5, <3>3 DEF CallInv
  <2>9. CASE ShareExecution(c)
    <3>1. index[k] # NoTask /\ RequestOf(index[k]) = request[c] /\ awaited'[c] = index[k]
      BY <2>9 DEF ShareExecution, SameSignature, TypeOK
    <3>2. pc'[c] = "awaiting" /\ answer'[c] = "none"
      BY <2>1, <2>9 DEF ShareExecution, TypeOK
    <3>3. Good(c)'
      BY <2>2, <2>3, <2>4, <3>1, <3>2 DEF RequestOf
    <3>4. QED BY <2>5, <3>3 DEF CallInv
  <2>10. QED BY <2>1, <2>6, <2>7, <2>8, <2>9 DEF Execute
<1>2. ASSUME NEW c \in Calls, PendingSkip(c) PROVE CallInv'
  BY <1>2 DEF PendingSkip, CallInv, TypeOK, RequestOf, taskVars
<1>3. ASSUME NEW c \in Calls, NEW r, Deliver(c, r), pc[c] = "awaiting",
             r \in {"timeout", result[awaited[c]]}, UNCHANGED <<request, awaited, taskVars>>
      PROVE  CallInv'
  <2>1. answer[c] = "none" /\ awaited[c] # NoTask
    BY <1>3 DEF CallInv
  <2>2. QED BY <1>3, <2>1, DeliverEffect DEF CallInv, RequestOf, taskVars
<1>4. ASSUME NEW c \in Calls, AwaitDone(c) \/ AwaitTimeout(c) PROVE CallInv'
  BY <1>3, <1>4 DEF AwaitDone, AwaitTimeout
<1>5. ASSUME NEW t \in Tasks, TaskStep(t) PROVE CallInv'
  <2>1. \A c \in Calls : awaited[c] # NoTask => awaited[c] \in Tasks
    BY DEF TypeOK
  <2>2. QED BY <1>5, <2>1, TaskStepMonotone DEF CallInv, callVars, RequestOf
<1>6. ASSUME NEW t \in Tasks, AdapterStep(t) PROVE CallInv'
  BY <1>6 DEF AdapterStep, JobStarts, CancelAnswered, Lands, JobEnds, taskVars, callVars, CallInv, RequestOf
<1>7. CASE UNCHANGED <<taskVars, callVars>>
  BY <1>7 DEF taskVars, callVars, CallInv, RequestOf
<1>8. QED
  BY <1>1, <1>2, <1>4, <1>5, <1>6, <1>7 DEF Next, CallStep, WindowCloses, vars

LEMMA CacheStepInv == IInv /\ [Next]_vars => CacheIndexAgree'
<1> SUFFICES ASSUME IInv, [Next]_vars PROVE CacheIndexAgree'
  OBVIOUS
<1> USE NoTaskAssumption DEF IInv, TypeOK
<1>1. ASSUME NEW c \in Calls, CallStep(c) PROVE CacheIndexAgree'
  <2>1. CASE UNCHANGED <<phase, index>>
    BY <1>1, <2>1, CallStepFrame DEF CacheIndexAgree
  <2>2. CASE ~ UNCHANGED <<phase, index>>
    <3>1. StartExecution(c) /\ UNCHANGED <<request, completed>>
      BY <1>1, <2>2, CallStepFrame
    <3> DEFINE t == <<c, attempt'[c]>>
               k == request[c].key
    <3>2. t \in Tasks /\ phase[t] = "unused"
      <4>1. Enter(c) \/ RetryReplace(c)
        BY <1>1, <3>1, <2>2 DEF CallStep, PendingSkip, AwaitDone, AwaitTimeout, taskVars, cacheVars
      <4>2. QED BY <4>1, ExecuteFresh
    <3>3. k \in Keys /\ index[k] = NoTask
      BY <3>1, RequestsAssumption DEF StartExecution, MayStart, RequestShape
    <3>4. index' = [index EXCEPT ![k] = t] /\ phase' = [phase EXCEPT ![t] = "signing"]
      BY <3>1 DEF StartExecution
    <3> HIDE DEF t
    <3>5. ASSUME NEW j \in Keys
          PROVE  (index'[j] # NoTask /\ phase'[index'[j]] = "stored")
                   <=> (index[j] # NoTask /\ phase[index[j]] = "stored")
      <4>1. CASE j = k
        BY <3>2, <3>3, <3>4, <4>1
      <4>2. CASE j # k
        BY <3>2, <3>3, <3>4, <4>2
      <4>3. QED BY <4>1, <4>2
    <3>6. QED BY <3>1, <3>5 DEF CacheIndexAgree
  <2>3. QED BY <2>1, <2>2
<1>2. ASSUME NEW t \in Tasks, StoreResult(t) PROVE CacheIndexAgree'
  <2> DEFINE k == RequestOf(t).key
             n == Len(completed)
  <2> HIDE DEF k, n
  <2>1. phase' = [phase EXCEPT ![t] = "stored"]
    BY <1>2 DEF StoreResult
  <2>2. /\ k \in Keys /\ index[k] = t /\ n \in Nat
        /\ \A i \in 1 .. n : completed[i] # k
    BY <1>2, StoreFacts DEF k, n
  <2>3. \A j \in Keys : j # k => index[j] # t
    BY <1>2 DEF IndexInv, k
  <2>4. \A j \in Keys : j # k /\ index[j] # NoTask => phase'[index[j]] = phase[index[j]]
    BY <2>1, <2>3
  <2>5. phase'[t] = "stored"
    BY <2>1
  <2>6. CASE n < MaxCached /\ completed' = Append(completed, k) /\ UNCHANGED index
    <3>1. /\ Len(completed') = n + 1
          /\ \A i \in 1 .. n : completed'[i] = completed[i]
          /\ completed'[n + 1] = k
      BY <2>2, <2>6, AppendProperties DEF n
    <3>2. ASSUME NEW i \in 1 .. n + 1, NEW j \in 1 .. n + 1, completed'[i] = completed'[j]
          PROVE  i = j
      <4>1. \A a, b \in 1 .. n : completed[a] = completed[b] => a = b
        BY DEF CacheIndexAgree, n
      <4>2. CASE i \in 1 .. n /\ j \in 1 .. n
        BY <3>1, <3>2, <4>1, <4>2
      <4>3. CASE i = n + 1 \/ j = n + 1
        BY <2>2, <3>1, <3>2, <4>3
      <4>4. QED BY <2>2, <4>2, <4>3
    <3>3. ASSUME NEW x \in Keys
          PROVE  (\E i \in 1 .. n + 1 : completed'[i] = x)
                   <=> (index'[x] # NoTask /\ phase'[index'[x]] = "stored")
      <4>1. (\E i \in 1 .. n : completed[i] = x) <=> (index[x] # NoTask /\ phase[index[x]] = "stored")
        BY DEF CacheIndexAgree, n
      <4>2. CASE x = k
        BY <2>2, <2>5, <2>6, <3>1, <4>2
      <4>3. CASE x # k
        <5>1. (\E i \in 1 .. n + 1 : completed'[i] = x) <=> (\E i \in 1 .. n : completed[i] = x)
          BY <2>2, <3>1, <4>3
        <5>2. index'[x] = index[x] /\ (index[x] # NoTask => phase'[index[x]] = phase[index[x]])
          BY <2>4, <2>6, <4>3
        <5>3. QED BY <4>1, <5>1, <5>2
      <4>4. QED BY <4>2, <4>3
    <3>4. Len(completed') <= MaxCached
      BY <2>2, <2>6, <3>1, MaxCachedAssumption
    <3>5. QED BY <3>1, <3>2, <3>3, <3>4 DEF CacheIndexAgree
  <2>7. CASE /\ n = MaxCached
             /\ Len(completed') = n
             /\ \A i \in 1 .. n : completed'[i] = IF i < n THEN completed[i + 1] ELSE k
             /\ completed[1] \in Keys
             /\ index' = [index EXCEPT ![completed[1]] = NoTask]
    <3>1. \A i, j \in 1 .. n : completed[i] = completed[j] => i = j
      BY DEF CacheIndexAgree, n
    <3>2. ASSUME NEW i \in 1 .. n, NEW j \in 1 .. n, completed'[i] = completed'[j] PROVE i = j
      <4>1. i < n => completed'[i] = completed[i + 1] /\ completed[i + 1] # k
        BY <2>2, <2>7
      <4>2. j < n => completed'[j] = completed[j + 1] /\ completed[j + 1] # k
        BY <2>2, <2>7
      <4>3. CASE i < n /\ j < n
        BY <2>2, <3>1, <3>2, <4>1, <4>2, <4>3
      <4>4. CASE i = n \/ j = n
        BY <2>2, <2>7, <3>2, <4>1, <4>2, <4>4
      <4>5. QED BY <2>2, <4>3, <4>4
    <3>3. 1 \in 1 .. n /\ n \in 1 .. n
      BY <2>2, <2>7, MaxCachedAssumption
    <3>4. ASSUME NEW x \in Keys
          PROVE  (\E i \in 1 .. n : completed'[i] = x)
                   <=> (index'[x] # NoTask /\ phase'[index'[x]] = "stored")
      <4>1. (\E i \in 1 .. n : completed[i] = x) <=> (index[x] # NoTask /\ phase[index[x]] = "stored")
        BY DEF CacheIndexAgree, n
      <4>2. CASE x = k
        BY <2>2, <2>5, <2>7, <3>3, <4>2
      <4>3. CASE x = completed[1]
        <5>1. index'[x] = NoTask
          BY <2>7, <4>3
        <5>2. ASSUME NEW i \in 1 .. n, completed'[i] = x PROVE FALSE
          BY <2>2, <2>7, <3>1, <3>3, <4>3, <5>2
        <5>3. QED BY <5>1, <5>2
      <4>4. CASE x # k /\ x # completed[1]
        <5>1. index'[x] = index[x] /\ (index[x] # NoTask => phase'[index[x]] = phase[index[x]])
          BY <2>4, <2>7, <4>4
        <5>2. (\E i \in 1 .. n : completed'[i] = x) <=> (\E i \in 1 .. n : completed[i] = x)
          <6>1. ASSUME NEW i \in 1 .. n, completed'[i] = x PROVE \E j \in 1 .. n : completed[j] = x
            <7>1. i < n /\ completed[i + 1] = x
              BY <2>2, <2>7, <4>4, <6>1
            <7>2. i + 1 \in 1 .. n
              BY <2>2, <7>1
            <7>3. QED BY <7>1, <7>2
          <6>2. ASSUME NEW i \in 1 .. n, completed[i] = x
                PROVE  \E j \in 1 .. n : completed'[j] = x
            <7>1. i - 1 \in 1 .. n /\ i - 1 < n /\ (i - 1) + 1 = i
              BY <2>2, <4>4, <6>2
            <7>2. completed'[i - 1] = x
              BY <2>7, <6>2, <7>1
            <7>3. QED BY <7>1, <7>2
          <6>3. QED BY <6>1, <6>2
        <5>3. QED BY <4>1, <5>1, <5>2
      <4>5. QED BY <4>2, <4>3, <4>4
    <3>5. QED BY <2>2, <2>7, <3>2, <3>4 DEF CacheIndexAgree
  <2>8. QED BY <1>2, <2>6, <2>7, StoreFacts DEF k, n
<1>3. ASSUME NEW t \in Tasks, TaskStep(t), ~ StoreResult(t) PROVE CacheIndexAgree'
  <2>1. /\ UNCHANGED <<index, completed>>
        /\ phase[t] # "stored"
        /\ phase' \in {[phase EXCEPT ![t] = "sending"], [phase EXCEPT ![t] = "finished"]}
    BY <1>3 DEF TaskStep, Signed, SignFails, SignTimeout, TakeReply, Listening, AdapterTimeout,
       Finish, cacheVars
  <2>2. QED BY <2>1 DEF CacheIndexAgree
<1>4. ASSUME NEW t \in Tasks, AdapterStep(t) PROVE CacheIndexAgree'
  BY <1>4 DEF AdapterStep, JobStarts, CancelAnswered, Lands, JobEnds, taskVars, cacheVars, CacheIndexAgree
<1>5. CASE UNCHANGED <<taskVars, cacheVars>>
  BY <1>5 DEF taskVars, cacheVars, CacheIndexAgree
<1>6. QED
  BY <1>1, <1>2, <1>3, <1>4, <1>5 DEF Next, WindowCloses, vars

LEMMA InitInv == Init => IInv
<1> SUFFICES ASSUME Init PROVE IInv
  OBVIOUS
<1>1. TypeOK
  BY TypeInit
<1>2. TaskInv /\ AdapterInv
  BY DEF Init, TaskInv, AdapterInv
<1>3. IndexInv
  BY DEF Init, IndexInv, Unsettled
<1>4. CallInv
  BY DEF Init, CallInv
<1>5. FreshInv
  BY TasksOf DEF Init, FreshInv
<1>6. CacheIndexAgree
  BY MaxCachedAssumption DEF Init, CacheIndexAgree
<1>7. QED BY <1>1, <1>2, <1>3, <1>4, <1>5, <1>6 DEF IInv

\* The inductive invariant.
THEOREM Invariance == Spec => []IInv
<1>1. IInv /\ [Next]_vars => IInv'
  BY TypeStep, TaskStepInv, IndexStepInv, AdapterStepInv, CallStepInv, FreshStepInv, CacheStepInv
     DEF IInv
<1>2. QED BY InitInv, <1>1, PTL DEF Spec

------------------------------------------------------------------------------
\* Every reachable state is well typed.
THEOREM TypeCorrect == Spec => []TypeOK
  BY Invariance, PTL DEF IInv

\* No interleaving of callers, tasks, timeouts and evictions runs a key twice
\* at the same time (_execute, _store_task_result).
THEOREM ExecutionIsSingle == Spec => []SingleExecution
<1>1. IInv => SingleExecution
  BY DEF IInv, IndexInv, SingleExecution
<1>2. QED BY Invariance, <1>1, PTL

\* A definitive answer is what the adapter said of the caller's own request, and, where
\* the adapter can know it, what the exchange did (_execute, _await_task, _run_operation).
THEOREM AnswersAreTrue == Spec => []AnswerMatchesExchange
<1>1. ASSUME IInv, NEW c \in Calls, answer[c] \in {"accepted", "rejected", "nobalance"}
      PROVE  LET t == awaited[c]
                 posted == request[c].action # "cancel"
             IN /\ t \in Tasks
                /\ RequestOf(t) = request[c]
                /\ thread[t] = "over" /\ reply[t] = answer[c]
                /\ answer[c] = "accepted" /\ posted => effect[t] = "landed"
                /\ answer[c] = "nobalance" \/ (answer[c] = "rejected" /\ ~posted) => effect[t] # "landed"
  <2> DEFINE t == awaited[c]
  <2>1. t # NoTask /\ RequestOf(t) = request[c] /\ result[t] = answer[c]
    BY <1>1 DEF IInv, CallInv
  <2>2. t \in Tasks
    BY <1>1, <2>1 DEF IInv, TypeOK
  <2> HIDE DEF t
  <2>3. reply[t] = answer[c]
    BY <1>1, <2>1, <2>2 DEF IInv, AdapterInv
  <2>4. QED BY <1>1, <2>1, <2>2, <2>3 DEF IInv, AdapterInv, t
<1>2. IInv => AnswerMatchesExchange
  BY <1>1 DEF AnswerMatchesExchange
<1>3. QED BY Invariance, <1>2, PTL

\* The result cache and the index stay in step, within the capacity
\* (_store_task_result, _trim_completed_cache).
THEOREM CacheAndIndexAgree == Spec => []CacheIndexAgree
  BY Invariance, PTL DEF IInv

\* The index is right about every key (_execute, _store_task_result,
\* _trim_completed_cache).
THEOREM IndexIsTrue == Spec => []IndexTrue
  BY ExecutionIsSingle, CacheAndIndexAgree, PTL DEF IndexTrue

------------------------------------------------------------------------------
(* OrderExecutor implements AtMostOnceExecution. *)

\* The abstract state does not move while index and results stay.
LEMMA SameStage ==
  ASSUME UNCHANGED <<index, result>>
  PROVE  UNCHANGED <<[k \in Keys |-> Stage(k)], [k \in Keys |-> Outcome(k)]>>
  BY DEF Stage, Outcome

LEMMA BeginStep ==
  ASSUME IInv, NEW t \in Tasks, NEW k \in Keys, phase[t] = "unused", index[k] = NoTask,
         index' = [index EXCEPT ![k] = t], UNCHANGED result
  PROVE  Promise!Begin(k)
<1>1. result[t] = "none"
  BY DEF IInv, TaskInv
<1>2. \A j \in Keys : j # k => index'[j] = index[j]
  BY DEF IInv, TypeOK
<1>3. index'[k] = t /\ t # NoTask
  BY NoTaskAssumption DEF IInv, TypeOK
<1>4. [j \in Keys |-> Stage(j)]' = [[j \in Keys |-> Stage(j)] EXCEPT ![k] = "executing"]
  BY <1>1, <1>2, <1>3 DEF Stage
<1>5. UNCHANGED [j \in Keys |-> Outcome(j)]
  BY <1>1, <1>2, <1>3 DEF Outcome
<1>6. Stage(k) = "fresh"
  BY DEF Stage
<1>7. QED BY <1>4, <1>5, <1>6 DEF Promise!Begin

\* A finishing task settles its key.
LEMMA SettleStep ==
  ASSUME IInv, NEW t \in Tasks, phase[t] \in {"signing", "sending"}, NEW r \in Outcomes,
         Finish(t, r), UNCHANGED index
  PROVE  \E k \in Keys : Promise!Settle(k, r)
<1> DEFINE k == RequestOf(t).key
<1>1. k \in Keys
  BY RequestsAssumption DEF IInv, TypeOK, RequestOf, Tasks, RequestShape
<1>2. index[k] = t /\ result[t] = "none" /\ t # NoTask
  BY NoTaskAssumption DEF IInv, IndexInv, TaskInv, Unsettled
<1>3. \A j \in Keys : j # k => index[j] # t
  BY <1>2 DEF IInv, IndexInv
<1> HIDE DEF k
<1>4. result' = [result EXCEPT ![t] = r] /\ r # "none"
  BY DEF Finish, Outcomes
<1>5. \A j \in Keys : j # k /\ index[j] # NoTask => result'[index[j]] = result[index[j]]
  BY <1>3, <1>4 DEF IInv, TypeOK
<1>6. result'[t] = r
  BY <1>4 DEF IInv, TypeOK
<1>7. [j \in Keys |-> Stage(j)]' = [[j \in Keys |-> Stage(j)] EXCEPT ![k] = "settled"]
  BY <1>1, <1>2, <1>4, <1>5, <1>6 DEF Stage
<1>8. [j \in Keys |-> Outcome(j)]' = [[j \in Keys |-> Outcome(j)] EXCEPT ![k] = r]
  BY <1>1, <1>2, <1>5, <1>6 DEF Outcome
<1>9. Stage(k) = "executing"
  BY <1>2 DEF Stage
<1>10. QED BY <1>1, <1>7, <1>8, <1>9 DEF Promise!Settle

LEMMA ForgetStep ==
  ASSUME IInv, NEW h \in Keys, index[h] # NoTask, phase[index[h]] = "stored",
         index' = [index EXCEPT ![h] = NoTask], UNCHANGED result
  PROVE  Promise!Forget(h)
<1>1. index[h] \in Tasks /\ result[index[h]] # "none"
  BY DEF IInv, TypeOK, TaskInv
<1>2. index'[h] = NoTask /\ \A j \in Keys : j # h => index'[j] = index[j]
  BY DEF IInv, TypeOK
<1>3. [j \in Keys |-> Stage(j)]' = [[j \in Keys |-> Stage(j)] EXCEPT ![h] = "fresh"]
  BY <1>2 DEF Stage
<1>4. [j \in Keys |-> Outcome(j)]' = [[j \in Keys |-> Outcome(j)] EXCEPT ![h] = "none"]
  <2>1. Outcome(h)' = "none" /\ \A j \in Keys : j # h => Outcome(j)' = Outcome(j)
    BY <1>2 DEF Outcome
  <2> HIDE DEF Outcome
  <2>2. QED BY <2>1
<1>5. Stage(h) = "settled"
  BY <1>1 DEF Stage
<1>6. QED BY <1>3, <1>4, <1>5 DEF Promise!Forget

LEMMA PromiseStep == IInv /\ [Next]_vars => [Promise!Next]_Promise!vars
<1> SUFFICES ASSUME IInv, [Next]_vars PROVE Promise!Next \/ UNCHANGED Promise!vars
  OBVIOUS
<1>1. ASSUME NEW c \in Calls, CallStep(c) PROVE Promise!Next \/ UNCHANGED Promise!vars
  <2>1. UNCHANGED result /\ (StartExecution(c) \/ UNCHANGED index)
    BY <1>1, CallStepFrame
  <2>2. CASE UNCHANGED index
    BY <2>1, <2>2, SameStage DEF Promise!vars
  <2>3. CASE ~ UNCHANGED index
    <3> DEFINE t == <<c, attempt'[c]>>
               k == request[c].key
    <3>1. t \in Tasks /\ phase[t] = "unused"
      <4>1. Enter(c) \/ RetryReplace(c)
        BY <1>1, <2>3 DEF CallStep, PendingSkip, AwaitDone, AwaitTimeout, cacheVars
      <4>2. TypeOK /\ FreshInv
        BY DEF IInv
      <4>3. QED BY <4>1, <4>2, ExecuteFresh
    <3>2. k \in Keys /\ index[k] = NoTask /\ index' = [index EXCEPT ![k] = t]
      BY <2>1, <2>3, RequestsAssumption DEF StartExecution, MayStart, RequestShape, IInv, TypeOK
    <3> HIDE DEF t, k
    <3>3. Promise!Begin(k)
      BY <2>1, <3>1, <3>2, BeginStep
    <3>4. QED BY <3>2, <3>3 DEF Promise!Next
  <2>4. QED BY <2>2, <2>3
<1>2. ASSUME NEW t \in Tasks, TaskStep(t), ~ StoreResult(t), ~ Signed(t)
      PROVE  Promise!Next
  <2>1. phase[t] \in {"signing", "sending"} /\ UNCHANGED index
    BY <1>2 DEF TaskStep, SignFails, SignTimeout, TakeReply, Listening, AdapterTimeout, cacheVars
  <2>2. PICK r \in Outcomes : Finish(t, r)
    <3>1. CASE SignFails(t) \/ SignTimeout(t) \/ AdapterTimeout(t)
      BY <3>1 DEF SignFails, SignTimeout, AdapterTimeout, Outcomes
    <3>2. CASE TakeReply(t)
      BY <3>2 DEF TakeReply, OutcomeOf, Outcomes, IInv, TypeOK, AdapterInv
    <3>3. QED BY <1>2, <3>1, <3>2 DEF TaskStep
  <2>3. \E k \in Keys : Promise!Settle(k, r)
    BY <2>1, <2>2, SettleStep
  <2>4. QED BY <2>3 DEF Promise!Next
<1>3. ASSUME NEW t \in Tasks, StoreResult(t) PROVE Promise!Next \/ UNCHANGED Promise!vars
  <2>1. UNCHANGED result
    BY <1>3 DEF StoreResult
  <2>2. CASE UNCHANGED index
    BY <2>1, <2>2, SameStage DEF Promise!vars
  <2>3. CASE ~ UNCHANGED index
    <3>1. PICK h \in Keys : /\ index' = [index EXCEPT ![h] = NoTask]
                           /\ index[h] # NoTask /\ phase[index[h]] = "stored"
      BY <1>3, <2>3, StoreFacts
    <3>2. Promise!Forget(h)
      BY <2>1, <3>1, ForgetStep
    <3>3. QED BY <3>2 DEF Promise!Next
  <2>4. QED BY <2>2, <2>3
<1>4. ASSUME UNCHANGED <<index, result>> PROVE UNCHANGED Promise!vars
  BY <1>4, SameStage DEF Promise!vars
<1>5. ASSUME NEW t \in Tasks, Signed(t) \/ AdapterStep(t) PROVE UNCHANGED <<index, result>>
  BY <1>5 DEF Signed, AdapterStep, JobStarts, CancelAnswered, Lands, JobEnds, taskVars, cacheVars
<1>6. CASE UNCHANGED <<taskVars, cacheVars>>
  BY <1>4, <1>6 DEF taskVars, cacheVars
<1>7. QED
  BY <1>1, <1>2, <1>3, <1>4, <1>5, <1>6 DEF Next, WindowCloses, vars

\* The executor implements the promise of its idempotency index.
THEOREM Refinement == Spec => ImplementsPromise
<1>1. Init => Promise!Init
  BY DEF Init, Promise!Init, Stage, Outcome
<1>2. QED BY <1>1, Invariance, PromiseStep, PTL DEF Spec, ImplementsPromise, Promise!Spec
==============================================================================
