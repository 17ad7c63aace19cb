--------------------------- MODULE CoPWriterProofs ---------------------------
(***************************************************************************)
(* Theorems about CoPWriter, for every set of updates, any number of admin *)
(* tasks, any retry limit, thresholds and queue bound.                     *)
(***************************************************************************)
EXTENDS CoPWriter, SequenceTheorems, FiniteSetTheorems, TLAPS

(* Where a task is: it works on an update exactly inside push_update, at a   *)
(* record of it or past the last one; it sends only inside push_update, for  *)
(* a record that is not for an operator; it waits to retry only while it may. *)
TaskPlace ==
  \A t \in Tasks :
    /\ pc[t] = "push" => cur[t] \in Updates /\ idx[t] \in 1 .. NumRecords(cur[t]) + 1
    /\ pc[t] # "push" => cur[t] = NoUpdate
    /\ send[t] # "none" =>
         pc[t] = "push" /\ idx[t] <= NumRecords(cur[t]) /\ Tier(cur[t]) # "human"
    /\ send[t] = "backoff" => transport = "live" /\ attempt[t] < RetryAttempts

IInv == TypeOK /\ TaskPlace

-----------------------------------------------------------------------------
(* Lemmas about the operators. *)

LEMMA NumRecordsPositive ==
  ASSUME NEW u \in Updates
  PROVE  NumRecords(u) \in Nat /\ NumRecords(u) >= 1
  BY SchemaAssumption DEF NumRecords

LEMMA RecordsOfUpdate ==
  /\ \A u \in Updates : \A i \in 1 .. NumRecords(u) : <<u, i>> \in Records
  /\ \A r \in Records : /\ r[1] \in Updates /\ r[2] \in 1 .. NumRecords(r[1])
                        /\ r = <<r[1], r[2]>>
  BY DEF Records

(* The tier rules: what needs an operator is exactly the human tier. *)
LEMMA HumanTier ==
  ASSUME NEW u \in Updates
  PROVE  /\ Tier(u) \in Tiers
         /\ NeedsOperator(u) <=> Tier(u) = "human"
  BY SchemaAssumption DEF Tier, Tiers, NeedsOperator

(* The bounded deque stays a sequence of the same elements. *)
LEMMA BoundedIsSeq ==
  ASSUME NEW S, NEW s \in Seq(S), NEW e \in S
  PROVE  /\ Bounded(Append(s, e)) \in Seq(S)
         /\ PushedOut(Append(s, e)) \subseteq S
<1>1. Append(s, e) \in Seq(S) /\ Len(Append(s, e)) = Len(s) + 1
  BY AppendProperties
<1>2. Append(s, e) # <<>>
  BY <1>1, EmptySeq, LenProperties
<1> QED
  BY <1>1, <1>2, HeadTailProperties DEF Bounded, PushedOut

(* Counting keeps the counters natural numbers. *)
LEMMA CountIsNat ==
  ASSUME NEW f \in [Counters -> Nat], NEW c \in Counters, NEW d \in Counters
  PROVE  /\ [f EXCEPT ![c] = @ + 1] \in [Counters -> Nat]
         /\ [f EXCEPT ![c] = @ + 1, ![d] = @ + 1] \in [Counters -> Nat]
  OBVIOUS

LEMMA RecordInRecords ==
  ASSUME TaskPlace, NEW t \in Tasks, pc[t] = "push", idx[t] <= NumRecords(cur[t])
  PROVE  Record(t) \in Records
<1>1. cur[t] \in Updates /\ idx[t] \in 1 .. NumRecords(cur[t]) + 1
  BY DEF TaskPlace
<1>2. idx[t] \in 1 .. NumRecords(cur[t])
  BY <1>1, NumRecordsPositive
<1> QED
  BY <1>1, <1>2, RecordsOfUpdate DEF Record

-----------------------------------------------------------------------------
(* The inductive invariant, action by action. *)

(* push_update is entered, by the pipeline or by a flush. *)
LEMMA CallPushIInv ==
  ASSUME IInv, NEW t \in Tasks, pc[t] # "push",
         NEW u \in Updates, NEW q \in Seq(Updates), CallPush(t, u, q),
         fresh' \subseteq Updates,
         UNCHANGED <<restVars, paused, humanQueue, stats, flushing, outcome>>
  PROVE  IInv'
<1>1. CASE Enqueue(u, q)
  BY <1>1, BoundedIsSeq DEF Enqueue, IInv, TypeOK, RestTypeOK, TaskPlace, restVars
<1>2. CASE BeginUpdate(t, u, q)
  <2>1. NumRecords(u) \in Nat
    BY NumRecordsPositive
  <2> QED
    BY <1>2, <2>1 DEF BeginUpdate, IInv, TypeOK, RestTypeOK, TaskPlace, restVars, Places
<1> QED
  BY <1>1, <1>2 DEF CallPush

LEMMA DispatchIInv ==
  ASSUME IInv, NEW t \in Tasks, DispatchRecord(t)
  PROVE  IInv'
<1>1. /\ cur[t] \in Updates /\ idx[t] \in Nat /\ idx[t] <= NumRecords(cur[t])
      /\ Record(t) \in Records /\ pc[t] = "push" /\ send[t] = "none"
  BY RecordInRecords DEF DispatchRecord, IInv, TypeOK, TaskPlace
<1>2. NumRecords(cur[t]) \in Nat
  BY <1>1, NumRecordsPositive
<1>3. CASE QueueForHuman(t)
  <2>1. humanQueue' \in Seq(Records)
    BY <1>1, <1>3, BoundedIsSeq DEF QueueForHuman, IInv, TypeOK
  <2>2. stats' \in [Counters -> Nat] /\ outcome' \in [Records -> Outcomes]
    <3>1. {"total_records", "human_queued"} \subseteq Counters
      BY DEF Counters
    <3>2. stats' \in [Counters -> Nat]
      BY <1>3, <3>1, CountIsNat DEF QueueForHuman, IInv, TypeOK
    <3>3. outcome' \in [Records -> Outcomes]
      BY <1>3 DEF QueueForHuman, IInv, TypeOK, Outcomes
    <3> QED
      BY <3>2, <3>3
  <2>3. idx' \in [Tasks -> Nat]
    BY <1>1, <1>3 DEF QueueForHuman, IInv, TypeOK
  <2>4. TypeOK'
    BY <1>3, <2>1, <2>2, <2>3
       DEF DispatchRecord, QueueForHuman, IInv, TypeOK, RestTypeOK, restVars
  <2>5. TaskPlace'
    BY <1>1, <1>2, <1>3 DEF DispatchRecord, QueueForHuman, IInv, TypeOK, TaskPlace, restVars
  <2> QED
    BY <2>4, <2>5 DEF IInv
<1>4. CASE SendToCoP(t)
  <2>1. /\ send' \in [Tasks -> SendStates] /\ attempt' \in [Tasks -> 0 .. RetryAttempts]
        /\ \A d \in Tasks : d # t => send'[d] = send[d] /\ attempt'[d] = attempt[d]
        /\ send'[t] # "backoff"
        /\ UNCHANGED <<transport, client, cop>>
    <3>1. /\ send \in [Tasks -> SendStates] /\ attempt \in [Tasks -> 0 .. RetryAttempts]
          /\ 1 \in 0 .. RetryAttempts
      BY ClientAssumption DEF IInv, TypeOK, RestTypeOK
    <3>2. CASE SendRecord(t)
      BY <3>1, <3>2 DEF SendRecord, MapRaises, DoPost, SendStates
    <3>3. CASE ~SendRecord(t)
      BY <1>4, <3>1, <3>3 DEF SendToCoP, MapRaises, SendStates
    <3> QED
      BY <3>2, <3>3
  <2>2. stats' \in [Counters -> Nat] /\ loop' \in Tasks \union {NoTask}
    BY <1>4 DEF SendToCoP, Count, IInv, TypeOK, Counters
  <2>3. UNCHANGED <<paused, pauseQueue, humanQueue, pc, flushing, cur, idx,
                    fresh, evicted, outcome>>
    BY <1>4 DEF DispatchRecord, SendToCoP
  <2>4. Tier(cur[t]) # "human"
    BY <1>4 DEF SendToCoP
  <2>5. TypeOK'
    BY <2>1, <2>2, <2>3 DEF IInv, TypeOK, RestTypeOK
  <2>6. TaskPlace'
    BY <1>1, <2>1, <2>3, <2>4 DEF IInv, TaskPlace
  <2> QED
    BY <2>5, <2>6 DEF IInv
<1> QED
  BY <1>3, <1>4 DEF DispatchRecord

LEMMA FinishIInv ==
  ASSUME IInv, NEW t \in Tasks, FinishRecord(t)
  PROVE  IInv'
<1>1. /\ pc[t] = "push" /\ idx[t] \in Nat /\ idx[t] <= NumRecords(cur[t])
      /\ cur[t] \in Updates /\ idx[t] \in 1 .. NumRecords(cur[t]) + 1
  BY DEF FinishRecord, IInv, TypeOK, TaskPlace
<1>2. NumRecords(cur[t]) \in Nat
  BY <1>1, NumRecordsPositive
<1>3. stats' \in [Counters -> Nat] /\ outcome' \in [Records -> Outcomes]
  <2>1. {"errors", "auto_writes", "flagged_writes"} \subseteq Counters
    BY DEF Counters
  <2>2. PICK c \in Counters : stats' = [stats EXCEPT ![c] = @ + 1]
    BY <2>1 DEF FinishRecord, CountSend, Count
  <2>3. stats' \in [Counters -> Nat]
    BY <2>2, CountIsNat DEF IInv, TypeOK
  <2>4. outcome' \in [Records -> Outcomes]
    BY DEF FinishRecord, IInv, TypeOK, Outcomes
  <2> QED
    BY <2>3, <2>4
<1>4. send' \in [Tasks -> SendStates] /\ idx' \in [Tasks -> Nat]
  BY <1>1 DEF FinishRecord, IInv, TypeOK, RestTypeOK, SendStates
<1>5. TypeOK'
  BY <1>3, <1>4 DEF FinishRecord, IInv, TypeOK, RestTypeOK
<1>6. TaskPlace'
  BY <1>1, <1>2 DEF FinishRecord, IInv, TypeOK, RestTypeOK, TaskPlace
<1> QED
  BY <1>5, <1>6 DEF IInv

LEMMA ReturnIInv ==
  ASSUME IInv, NEW t \in Tasks, ReturnFromPush(t)
  PROVE  IInv'
<1>1. TypeOK'
  BY DEF ReturnFromPush, IInv, TypeOK, RestTypeOK, restVars, histVars, Places
<1>2. TaskPlace'
  BY DEF ReturnFromPush, IInv, TypeOK, TaskPlace, restVars
<1> QED
  BY <1>1, <1>2 DEF IInv

LEMMA WakeUpIInv ==
  ASSUME IInv, NEW t \in Tasks, WakeUp(t)
  PROVE  IInv'
<1>1. send[t] # "none"
  BY DEF WakeUp, Respond, Expire, Retry
<1>2. Record(t) \in Records
  BY <1>1, RecordInRecords DEF IInv, TaskPlace
<1>3. /\ cop' \in [Records -> Nat]
      /\ send' \in [Tasks -> SendStates]
      /\ attempt' \in [Tasks -> 0 .. RetryAttempts]
      /\ \A d \in Tasks : d # t => send'[d] = send[d] /\ attempt'[d] = attempt[d]
      /\ send'[t] = "backoff" => transport = "live" /\ attempt'[t] < RetryAttempts
      /\ UNCHANGED <<transport, client>>
  <2>1. CASE Respond(t, Record(t))
    <3>1. cop[Record(t)] + 1 \in Nat
      BY <1>2 DEF IInv, TypeOK, RestTypeOK
    <3>2. cop' \in [Records -> Nat]
      BY <2>1, <3>1 DEF Respond, IInv, TypeOK, RestTypeOK
    <3> QED
      BY <2>1, <3>2 DEF Respond, IInv, TypeOK, RestTypeOK, SendStates
  <2>2. CASE Expire(t, Record(t))
    BY <1>2, <2>2 DEF Expire, MayRetry, IInv, TypeOK, RestTypeOK, SendStates
  <2>3. CASE Retry(t)
    <3>1. attempt[t] \in 0 .. RetryAttempts /\ attempt[t] < RetryAttempts
      BY <2>3 DEF Retry, IInv, TypeOK, RestTypeOK, TaskPlace
    <3>2. attempt[t] + 1 \in 0 .. RetryAttempts
      BY <3>1, ClientAssumption
    <3> QED
      BY <2>3, <3>2 DEF Retry, DoPost, IInv, TypeOK, RestTypeOK, SendStates
  <2> QED
    BY <2>1, <2>2, <2>3 DEF WakeUp
<1>4. /\ UNCHANGED <<paused, pauseQueue, humanQueue, stats, pc, flushing, cur, idx, histVars>>
      /\ loop' \in Tasks \union {NoTask}
  BY DEF WakeUp
<1>5. TypeOK'
  BY <1>3, <1>4 DEF IInv, TypeOK, RestTypeOK, histVars
<1>6. TaskPlace'
  BY <1>1, <1>3, <1>4 DEF IInv, TaskPlace
<1> QED
  BY <1>5, <1>6 DEF IInv

LEMMA InitIInv == Init => IInv
<1> SUFFICES ASSUME Init PROVE IInv
  OBVIOUS
<1>1. TypeOK
  <2>1. RestTypeOK
    <3>1. 0 \in 0 .. RetryAttempts
      BY ClientAssumption
    <3> QED
      BY <3>1 DEF Init, RestInit, RestTypeOK, SendStates
  <2>2. pauseQueue \in Seq(Updates) /\ humanQueue \in Seq(Records)
    BY EmptySeq DEF Init
  <2>3. stats \in [Counters -> Nat] /\ outcome \in [Records -> Outcomes]
    BY DEF Init, Outcomes
  <2> QED
    BY <2>1, <2>2, <2>3 DEF Init, TypeOK, Places
<1>2. TaskPlace
  BY DEF Init, RestInit, TaskPlace
<1> QED
  BY <1>1, <1>2 DEF IInv

LEMMA StepIInv == IInv /\ [Next]_vars => IInv'
<1> SUFFICES ASSUME IInv, [Next]_vars PROVE IInv'
  OBVIOUS
<1>1. ASSUME NEW u \in Updates, PushUpdate(u) PROVE IInv'
  <2>1. Pipeline \in Tasks /\ pc[Pipeline] # "push" /\ pauseQueue \in Seq(Updates)
    BY <1>1 DEF PushUpdate, Tasks, IInv, TypeOK
  <2>2. fresh' \subseteq Updates
    BY <1>1 DEF PushUpdate, IInv, TypeOK
  <2> QED
    BY <1>1, <2>1, <2>2, CallPushIInv DEF PushUpdate
<1>2. CASE Pause
  BY <1>2 DEF Pause, IInv, TypeOK, RestTypeOK, TaskPlace, restVars, taskVars, histVars
<1>3. ASSUME NEW t \in Operators, Resume(t) PROVE IInv'
  <2>1. t \in Tasks
    BY DEF Tasks
  <2> QED
    BY <1>3, <2>1
       DEF Resume, IInv, TypeOK, RestTypeOK, TaskPlace, restVars, histVars, Places
<1>4. ASSUME NEW n \in 1 .. Len(humanQueue), PopHumanQueue(n) PROVE IInv'
  <2>1. humanQueue' \in Seq(Records)
    <3>1. Len(humanQueue) \in Nat /\ \A i \in 1 .. Len(humanQueue) : humanQueue[i] \in Records
      BY LenProperties, ElementOfSeq DEF IInv, TypeOK
    <3>2. \A i \in n + 1 .. Len(humanQueue) : humanQueue[i] \in Records
      BY <3>1
    <3> QED
      BY <1>4, <3>1, <3>2, SubSeqProperties DEF PopHumanQueue
  <2>2. outcome' \in [Records -> Outcomes]
    BY <1>4 DEF PopHumanQueue, IInv, TypeOK, Outcomes
  <2> QED
    BY <1>4, <2>1, <2>2
       DEF PopHumanQueue, IInv, TypeOK, RestTypeOK, TaskPlace, restVars, taskVars
<1>5. CASE ConfigureClient
  BY <1>5 DEF ConfigureClient, Open, Close, IInv, TypeOK, RestTypeOK, TaskPlace,
              taskVars, histVars
<1>6. ASSUME NEW t \in Tasks, Step(t) PROVE IInv'
  <2>1. CASE FlushNext(t)
    <3>1. pauseQueue \in Seq(Updates) /\ pauseQueue # <<>> /\ fresh' = fresh
      BY <2>1 DEF FlushNext, IInv, TypeOK
    <3>2. Head(pauseQueue) \in Updates /\ Tail(pauseQueue) \in Seq(Updates)
      BY <3>1, HeadTailProperties
    <3>3. fresh' \subseteq Updates
      BY <3>1 DEF IInv, TypeOK
    <3> QED
      BY <2>1, <3>2, <3>3, CallPushIInv DEF FlushNext
  <2>2. CASE FlushDone(t)
    BY <2>2 DEF FlushDone, IInv, TypeOK, RestTypeOK, TaskPlace, restVars, histVars, Places
  <2> QED
    BY <1>6, <2>1, <2>2, DispatchIInv, FinishIInv, ReturnIInv, WakeUpIInv DEF Step
<1>7. CASE UNCHANGED vars
  BY <1>7 DEF vars, IInv, TypeOK, RestTypeOK, TaskPlace, restVars, taskVars, histVars
<1> QED
  BY <1>1, <1>2, <1>3, <1>4, <1>5, <1>6, <1>7 DEF Next

LEMMA SpecIInv == Spec => []IInv
  BY InitIInv, StepIInv, PTL DEF Spec

(* In every run the writer's variables keep their types; in particular no     *)
(* send takes more attempts than retry_attempts, whichever tasks' sends       *)
(* interleave and whatever the server does (_send_with_retry, lines 136-147). *)
THEOREM TypeCorrect == Spec => []TypeOK
<1>1. IInv => TypeOK
  BY DEF IInv
<1> QED
  BY <1>1, SpecIInv, PTL

-----------------------------------------------------------------------------
(* Tiered write authority. *)

(* The whole argument: a task sends only records that are not for an operator *)
(* (TaskPlace), and only the record a task is sending changes on the server   *)
(* or is settled as written or failed.                                        *)
LEMMA SendingIsNotForOperator ==
  ASSUME IInv, NEW t \in Tasks, send[t] # "none", NEW r \in Records, Record(t) = r
  PROVE  ~NeedsOperator(r[1])
<1>1. pc[t] = "push" /\ Tier(cur[t]) # "human"
  BY DEF IInv, TaskPlace
<1>2. cur[t] \in Updates /\ r[1] = cur[t]
  BY <1>1 DEF IInv, TaskPlace, Record
<1> QED
  BY <1>1, <1>2, HumanTier

LEMMA StepHumanTier ==
  IInv /\ HumanTierStaysLocal /\ [Next]_vars => HumanTierStaysLocal'
<1> SUFFICES ASSUME IInv, HumanTierStaysLocal, [Next]_vars PROVE HumanTierStaysLocal'
  OBVIOUS
<1>a. \A r \in Records, t \in Tasks :
        NeedsOperator(r[1]) /\ Record(t)' = r => ~Suspended(t)'
  <2> SUFFICES ASSUME NEW r \in Records, NEW t \in Tasks, NeedsOperator(r[1]),
                      Record(t)' = r, send'[t] # "none"
               PROVE  FALSE
    BY DEF Suspended
  <2>1. pc'[t] = "push" /\ Tier(cur'[t]) # "human" /\ cur'[t] \in Updates
    BY StepIInv DEF IInv, TaskPlace
  <2>2. r[1] = cur'[t]
    BY DEF Record
  <2> QED
    BY <2>1, <2>2, HumanTier
<1> SUFFICES ASSUME NEW r \in Records, NeedsOperator(r[1])
             PROVE  cop'[r] = 0 /\ outcome'[r] \notin {"written", "failed"}
  BY <1>a DEF HumanTierStaysLocal
<1>1. cop[r] = 0 /\ outcome[r] \notin {"written", "failed"}
  BY DEF HumanTierStaysLocal
<1>2. CASE UNCHANGED <<cop, outcome>>
  BY <1>1, <1>2
<1>3. ASSUME NEW n \in 1 .. Len(humanQueue), PopHumanQueue(n)
      PROVE  cop'[r] = 0 /\ outcome'[r] \notin {"written", "failed"}
  BY <1>1, <1>3 DEF PopHumanQueue, restVars
<1>4. ASSUME NEW t \in Tasks, DispatchRecord(t)
      PROVE  cop'[r] = 0 /\ outcome'[r] \notin {"written", "failed"}
  BY <1>1, <1>4 DEF DispatchRecord, QueueForHuman, SendToCoP, SendRecord, restVars
<1>5. ASSUME NEW t \in Tasks, FinishRecord(t)
      PROVE  cop'[r] = 0 /\ outcome'[r] \notin {"written", "failed"}
  <2>1. Record(t) # r
    BY <1>5, SendingIsNotForOperator DEF FinishRecord
  <2> QED
    BY <1>1, <1>5, <2>1 DEF FinishRecord, IInv, TypeOK
<1>6. ASSUME NEW t \in Tasks, WakeUp(t)
      PROVE  cop'[r] = 0 /\ outcome'[r] \notin {"written", "failed"}
  <2>1. Record(t) # r
    BY <1>6, SendingIsNotForOperator DEF WakeUp, Respond, Expire, Retry
  <2>2. cop'[r] = cop[r]
    BY <1>6, <2>1 DEF WakeUp, Respond, Expire, Retry, IInv, TypeOK, RestTypeOK
  <2> QED
    BY <1>1, <1>6, <2>2 DEF WakeUp, histVars
<1>7. (\E u \in Updates : PushUpdate(u)) => UNCHANGED <<cop, outcome>>
  BY DEF PushUpdate, restVars
<1>8. Pause \/ (\E t \in Operators : Resume(t)) \/ ConfigureClient
        => UNCHANGED <<cop, outcome>>
  BY DEF Pause, Resume, ConfigureClient, Open, Close, restVars, histVars
<1>9. (\E t \in Tasks : ReturnFromPush(t) \/ FlushNext(t) \/ FlushDone(t)) \/ UNCHANGED vars
        => UNCHANGED <<cop, outcome>>
  BY DEF ReturnFromPush, FlushNext, FlushDone, vars, restVars, histVars
<1> QED
  BY <1>2, <1>3, <1>4, <1>5, <1>6, <1>7, <1>8, <1>9 DEF Next, Step

(* No record of an update that the tier rules reserve for an operator is ever *)
(* sent or applied, for any thresholds and risk types, whichever way the      *)
(* update came to be pushed (classify_write_authority, _dispatch_record).     *)
THEOREM HumanTierCorrect == Spec => []HumanTierStaysLocal
<1>1. Init => HumanTierStaysLocal
  BY DEF Init, RestInit, Suspended, HumanTierStaysLocal
<1> QED
  BY <1>1, SpecIInv, StepHumanTier, PTL DEF Spec

-----------------------------------------------------------------------------
(* WHAT BECOMES OF AN UPDATE AND OF ITS RECORDS: delivery, the review queue, *)
(* overflow, the counters, and the refinement of UpdateLifecycle.            *)

Distinct(s) == \A i, j \in 1 .. Len(s) : s[i] = s[j] => i = j

(* An update is in one place only: not taken yet, pushed out, waiting, or in *)
(* the hands of one task.                                                    *)
OnePlace ==
  /\ Distinct(pauseQueue)
  /\ Len(pauseQueue) <= MaxQueueSize
  /\ fresh \intersect evicted = {}
  /\ Elements(pauseQueue) \intersect (fresh \union evicted) = {}
  /\ \A t \in Tasks : cur[t] \notin fresh \union evicted \union Elements(pauseQueue)
  /\ \A t, d \in Tasks : cur[t] = cur[d] /\ cur[t] # NoUpdate => t = d

(* What has not been begun has left no trace: the records of an update that  *)
(* no task has taken, and the records behind the one a task is at.           *)
Untouched ==
  /\ \A r \in Records : r[1] \in fresh \union evicted \union Elements(pauseQueue) =>
       outcome[r] = "none" /\ cop[r] = 0
  /\ \A t \in Tasks : \A r \in Records : r[1] = cur[t] =>
       /\ r[2] >= idx[t] => outcome[r] = "none"
       /\ r[2] > idx[t] \/ (r[2] = idx[t] /\ send[t] = "none") => cop[r] = 0

(* The record a task is sending was applied at most once for each attempt    *)
(* that has ended, and was applied if the send succeeded.                    *)
InFlight ==
  \A t \in Tasks : send[t] # "none" =>
    /\ transport = "live" => /\ cop[Record(t)] <= attempt[t]
                             /\ send[t] = "posting" => cop[Record(t)] < attempt[t]
    /\ transport = "legacy" => /\ cop[Record(t)] <= 1
                               /\ send[t] = "posting" => cop[Record(t)] = 0
    /\ transport \in {"dry_run", "local"} => ~Suspended(t)
    /\ send[t] = "ok" /\ transport \in {"live", "legacy"} => cop[Record(t)] > 0

UInv == IInv /\ OnePlace /\ Untouched /\ InFlight /\ ReviewQueueIsExact

-----------------------------------------------------------------------------
(* Lemmas about queues. *)

LEMMA AppendElements ==
  ASSUME NEW S, NEW s \in Seq(S), NEW e \in S
  PROVE  /\ Append(s, e) \in Seq(S) /\ Len(Append(s, e)) = Len(s) + 1
         /\ Elements(Append(s, e)) = Elements(s) \union {e}
         /\ Distinct(s) /\ e \notin Elements(s) => Distinct(Append(s, e))
  BY AppendProperties, LenProperties DEF Elements, Distinct

LEMMA TailElements ==
  ASSUME NEW S, NEW s \in Seq(S), s # <<>>
  PROVE  /\ Head(s) \in S /\ Tail(s) \in Seq(S) /\ Len(Tail(s)) = Len(s) - 1
         /\ Elements(s) = Elements(Tail(s)) \union {Head(s)}
         /\ Distinct(s) => Distinct(Tail(s)) /\ Head(s) \notin Elements(Tail(s))
<1>1. /\ Head(s) \in S /\ Tail(s) \in Seq(S) /\ Len(Tail(s)) = Len(s) - 1
      /\ Len(s) \in Nat /\ Len(s) >= 1 /\ Head(s) = s[1]
      /\ \A i \in 1 .. Len(s) - 1 : Tail(s)[i] = s[i + 1]
  BY HeadTailProperties, EmptySeq, LenProperties
<1>2. \A i \in 2 .. Len(s) : s[i] = Tail(s)[i - 1] /\ i - 1 \in 1 .. Len(s) - 1
  BY <1>1
<1>3. Elements(s) = Elements(Tail(s)) \union {Head(s)}
  <2>1. \A x \in Elements(s) : x \in Elements(Tail(s)) \union {Head(s)}
    <3> SUFFICES ASSUME NEW i \in 1 .. Len(s)
                 PROVE  s[i] \in Elements(Tail(s)) \union {Head(s)}
      BY DEF Elements
    <3>1. i = 1 \/ i \in 2 .. Len(s)
      BY <1>1
    <3>2. ASSUME i \in 2 .. Len(s) PROVE s[i] \in Elements(Tail(s))
      BY <1>1, <1>2, <3>2 DEF Elements
    <3> QED
      BY <1>1, <3>1, <3>2
  <2>2. \A x \in Elements(Tail(s)) \union {Head(s)} : x \in Elements(s)
    BY <1>1 DEF Elements
  <2> QED
    BY <2>1, <2>2
<1>4. ASSUME Distinct(s) PROVE Distinct(Tail(s)) /\ Head(s) \notin Elements(Tail(s))
  BY <1>1, <1>4 DEF Elements, Distinct
<1> QED
  BY <1>1, <1>3, <1>4

LEMMA BoundedElements ==
  ASSUME NEW S, NEW s \in Seq(S), s # <<>>, Distinct(s)
  PROVE  /\ Distinct(Bounded(s))
         /\ PushedOut(s) \subseteq Elements(s)
         /\ Elements(Bounded(s)) = Elements(s) \ PushedOut(s)
         /\ Len(s) <= MaxQueueSize + 1 => Len(Bounded(s)) <= MaxQueueSize
  BY TailElements, WriterAssumption, LenProperties DEF Bounded, PushedOut

LEMMA DropElements ==
  ASSUME NEW S, NEW s \in Seq(S), NEW n \in 1 .. Len(s), Distinct(s)
  PROVE  LET rest == SubSeq(s, n + 1, Len(s)) taken == SubSeq(s, 1, n)
         IN  /\ Distinct(rest)
             /\ Elements(rest) = Elements(s) \ Elements(taken)
             /\ Elements(taken) \subseteq Elements(s)
<1> DEFINE rest == SubSeq(s, n + 1, Len(s))
           taken == SubSeq(s, 1, n)
<1>1. Len(s) \in Nat /\ \A i \in 1 .. Len(s) : s[i] \in S
  BY LenProperties, ElementOfSeq
<1>2. Len(taken) = n /\ \A i \in 1 .. n : taken[i] = s[i]
  BY <1>1, SubSeqProperties
<1>3. Len(rest) = Len(s) - n /\ \A i \in 1 .. Len(s) - n : rest[i] = s[n + i]
  BY <1>1, SubSeqProperties
<1>4. \A i \in n + 1 .. Len(s) : s[i] = rest[i - n] /\ i - n \in 1 .. Len(s) - n
  BY <1>1, <1>3
<1> HIDE DEF rest, taken
<1>5. Distinct(rest)
  BY <1>1, <1>3 DEF Distinct
<1>6. Elements(taken) = {s[i] : i \in 1 .. n}
  BY <1>2 DEF Elements
<1>7. Elements(rest) = {s[i] : i \in n + 1 .. Len(s)}
  <2>1. \A i \in n + 1 .. Len(s) : s[i] \in Elements(rest)
    BY <1>1, <1>3, <1>4 DEF Elements
  <2>2. \A x \in Elements(rest) : \E i \in n + 1 .. Len(s) : x = s[i]
    <3> SUFFICES ASSUME NEW k \in 1 .. Len(s) - n
                 PROVE  \E i \in n + 1 .. Len(s) : rest[k] = s[i]
      BY <1>3 DEF Elements
    <3>1. n + k \in n + 1 .. Len(s)
      BY <1>1
    <3> QED
      BY <1>3, <3>1
  <2> QED
    BY <2>1, <2>2
<1>8. Elements(s) = {s[i] : i \in 1 .. Len(s)}
  BY DEF Elements
<1>9. Elements(rest) = Elements(s) \ Elements(taken)
  BY <1>1, <1>6, <1>7, <1>8 DEF Distinct
<1>10. Elements(taken) \subseteq Elements(s)
  BY <1>1, <1>6, <1>8
<1> QED
  BY <1>5, <1>9, <1>10 DEF rest, taken

-----------------------------------------------------------------------------
(* The inductive invariant, action by action. *)

LEMMA TaskFacts ==
  ASSUME IInv, NEW t \in Tasks
  PROVE  /\ cur[t] \in Updates <=> pc[t] = "push"
         /\ cur[t] = NoUpdate <=> pc[t] # "push"
         /\ pc[t] # "push" => send[t] = "none"
         /\ idx[t] \in Nat
  BY WriterAssumption DEF IInv, TypeOK, TaskPlace

(* push_update is entered with u, which was fresh or at the head of the queue. *)
LEMMA CallPushUInv ==
  ASSUME UInv, NEW t \in Tasks, pc[t] # "push",
         NEW u \in Updates, NEW q \in Seq(Updates), CallPush(t, u, q),
         Distinct(q), Len(q) <= MaxQueueSize, Elements(q) \subseteq Elements(pauseQueue),
         u \notin Elements(q), u \in fresh \union Elements(pauseQueue), fresh' = fresh \ {u},
         UNCHANGED <<restVars, humanQueue, outcome>>
  PROVE  OnePlace' /\ Untouched' /\ InFlight' /\ ReviewQueueIsExact'
<1>1. /\ cur[t] = NoUpdate /\ send[t] = "none" /\ NoUpdate \notin Updates
      /\ fresh \subseteq Updates /\ pauseQueue \in Seq(Updates)
  BY TaskFacts, WriterAssumption DEF UInv, IInv, TypeOK
<1>2. UNCHANGED <<transport, client, send, attempt, cop, humanQueue, outcome>>
  BY DEF restVars
<1>3. ReviewQueueIsExact'
  BY <1>2 DEF UInv, ReviewQueueIsExact
<1>4. u \notin evicted /\ \A d \in Tasks : cur[d] # u
  BY DEF UInv, OnePlace
<1>5. \A r \in Records : r[1] = u => outcome[r] = "none" /\ cop[r] = 0
  BY DEF UInv, Untouched
<1>6. CASE Enqueue(u, q)
  <2> DEFINE s == Append(q, u)
  <2>1. /\ s \in Seq(Updates) /\ s # <<>> /\ Distinct(s) /\ Len(s) <= MaxQueueSize + 1
        /\ Elements(s) = Elements(q) \union {u}
    BY AppendElements, AppendProperties, LenProperties, WriterAssumption
  <2>2. /\ Distinct(pauseQueue') /\ Len(pauseQueue') <= MaxQueueSize
        /\ Elements(pauseQueue') = (Elements(q) \union {u}) \ PushedOut(s)
        /\ evicted' = evicted \union PushedOut(s)
        /\ PushedOut(s) \subseteq Elements(q) \union {u}
        /\ UNCHANGED <<loop, pc, cur, idx>>
    BY <1>6, <2>1, BoundedElements DEF Enqueue
  <2> HIDE DEF s
  <2>3. OnePlace'
    BY <1>4, <2>2 DEF UInv, OnePlace
  <2>4. Untouched'
    BY <1>2, <1>5, <2>2 DEF UInv, Untouched
  <2>5. InFlight'
    BY <1>2, <2>2 DEF UInv, InFlight, Record, Suspended
  <2> QED
    BY <1>3, <2>3, <2>4, <2>5
<1>7. CASE BeginUpdate(t, u, q)
  <2>1. /\ cur' \in [Tasks -> Updates \union {NoUpdate}]
        /\ cur'[t] = u /\ idx'[t] = 1 /\ evicted' = evicted /\ pauseQueue' = q
        /\ \A d \in Tasks : d # t => cur'[d] = cur[d] /\ idx'[d] = idx[d]
    BY <1>7 DEF BeginUpdate, UInv, IInv, TypeOK
  <2>2. OnePlace'
    BY <1>1, <1>4, <2>1 DEF UInv, OnePlace
  <2>3. Untouched'
    <3>1. \A r \in Records : r[1] \in fresh' \union evicted' \union Elements(pauseQueue') =>
            outcome'[r] = "none" /\ cop'[r] = 0
      BY <1>2, <2>1 DEF UInv, Untouched
    <3>2. ASSUME NEW d \in Tasks, NEW r \in Records, r[1] = cur'[d]
          PROVE  /\ r[2] >= idx'[d] => outcome'[r] = "none"
                 /\ r[2] > idx'[d] \/ (r[2] = idx'[d] /\ send'[d] = "none") => cop'[r] = 0
      BY <1>2, <1>5, <2>1, <3>2 DEF UInv, Untouched
    <3> QED
      BY <3>1, <3>2 DEF Untouched
  <2>4. InFlight'
    <3> SUFFICES ASSUME NEW d \in Tasks, send'[d] # "none"
                 PROVE  d # t
      BY <1>2, <2>1 DEF UInv, InFlight, Record, Suspended
    <3> QED
      BY <1>1, <1>2
  <2> QED
    BY <1>3, <2>2, <2>3, <2>4
<1> QED
  BY <1>6, <1>7 DEF CallPush

(* A record leaves no trace before its turn, and belongs to one task. *)
LEMMA AtRecord ==
  ASSUME UInv, NEW t \in Tasks, pc[t] = "push", idx[t] <= NumRecords(cur[t])
  PROVE  /\ Record(t) \in Records /\ outcome[Record(t)] = "none"
         /\ send[t] = "none" => cop[Record(t)] = 0
         /\ cur[t] \notin fresh \union evicted \union Elements(pauseQueue)
         /\ \A d \in Tasks : d # t => cur[d] # cur[t]
         /\ \A i \in 1 .. Len(humanQueue) : humanQueue[i] # Record(t)
<1>1. Record(t) \in Records /\ idx[t] \in Nat /\ cur[t] \in Updates /\ cur[t] # NoUpdate
  BY RecordInRecords, TaskFacts DEF UInv, IInv
<1>2. Record(t)[1] = cur[t] /\ Record(t)[2] = idx[t]
  BY DEF Record
<1>3. outcome[Record(t)] = "none" /\ (send[t] = "none" => cop[Record(t)] = 0)
  BY <1>1, <1>2 DEF UInv, Untouched
<1> QED
  BY <1>1, <1>3 DEF UInv, OnePlace, ReviewQueueIsExact

(* Steps that change none of the places of updates. *)
LEMMA PlacesKept ==
  ASSUME UInv, UNCHANGED <<pauseQueue, fresh, evicted, cur>>
  PROVE  OnePlace'
  BY DEF UInv, OnePlace

LEMMA DispatchUInv ==
  ASSUME UInv, NEW t \in Tasks, DispatchRecord(t)
  PROVE  OnePlace' /\ Untouched' /\ InFlight' /\ ReviewQueueIsExact'
<1> DEFINE r == Record(t)
<1>1. /\ r \in Records /\ outcome[r] = "none" /\ cop[r] = 0 /\ send[t] = "none"
      /\ cur[t] \notin fresh \union evicted \union Elements(pauseQueue)
      /\ \A d \in Tasks : d # t => cur[d] # cur[t]
      /\ \A i \in 1 .. Len(humanQueue) : humanQueue[i] # r
      /\ r[1] = cur[t] /\ r[2] = idx[t] /\ idx[t] \in Nat
  BY AtRecord, TaskFacts DEF DispatchRecord, Record, UInv
<1>2. UNCHANGED <<pauseQueue, cur, fresh, evicted>>
  BY DEF DispatchRecord
<1>3. OnePlace'
  BY <1>2, PlacesKept
<1>a. \A s \in Records : s[2] \in Nat /\ s = <<s[1], s[2]>>
  BY RecordsOfUpdate, NumRecordsPositive
<1> HIDE DEF r
<1>4. CASE QueueForHuman(t)
  <2> DEFINE s == Append(humanQueue, r)
  <2>1. /\ humanQueue \in Seq(Records) /\ outcome \in [Records -> Outcomes]
        /\ idx \in [Tasks -> Nat]
    BY DEF UInv, IInv, TypeOK
  <2>2. /\ humanQueue' = Bounded(s)
        /\ outcome' = [x \in Records |-> IF x \in PushedOut(s) THEN "lost"
                                         ELSE IF x = r THEN "review" ELSE outcome[x]]
        /\ idx' = [idx EXCEPT ![t] = @ + 1]
        /\ UNCHANGED <<transport, client, send, attempt, cop>>
    BY <1>4 DEF QueueForHuman, restVars, r
  <2>3. Distinct(humanQueue) /\ r \notin Elements(humanQueue)
    BY <1>1 DEF UInv, ReviewQueueIsExact, Distinct, Elements
  <2>4. /\ s \in Seq(Records) /\ s # <<>> /\ Distinct(s)
        /\ Elements(s) = Elements(humanQueue) \union {r}
    BY <1>1, <2>1, <2>3, AppendElements, AppendProperties
  <2>5. /\ Distinct(humanQueue') /\ PushedOut(s) \subseteq Elements(humanQueue) \union {r}
        /\ Elements(humanQueue') = (Elements(humanQueue) \union {r}) \ PushedOut(s)
    BY <2>2, <2>4, BoundedElements
  <2>6. \A x \in Records : outcome[x] = "review" <=> x \in Elements(humanQueue)
    BY DEF UInv, ReviewQueueIsExact, Elements
  <2> HIDE DEF s
  <2>7. ReviewQueueIsExact'
    <3>1. \A x \in Records : outcome'[x] = "review" <=> x \in Elements(humanQueue')
      BY <1>1, <2>2, <2>5, <2>6
    <3> QED
      BY <2>5, <3>1 DEF ReviewQueueIsExact, Distinct, Elements
  <2>8. \A x \in Records : outcome[x] = "none" /\ x # r => outcome'[x] = "none"
    BY <2>2, <2>5, <2>6
  <2>9. Untouched'
    <3>1. \A x \in Records : x[1] \in fresh' \union evicted' \union Elements(pauseQueue') =>
            outcome'[x] = "none" /\ cop'[x] = 0
      BY <1>1, <1>2, <2>2, <2>8 DEF UInv, Untouched
    <3>2. ASSUME NEW d \in Tasks, NEW x \in Records, x[1] = cur'[d]
          PROVE  /\ x[2] >= idx'[d] => outcome'[x] = "none"
                 /\ x[2] > idx'[d] \/ (x[2] = idx'[d] /\ send'[d] = "none") => cop'[x] = 0
      <4>1. CASE d = t
        BY <1>1, <1>2, <1>a, <2>1, <2>2, <2>8, <3>2, <4>1 DEF UInv, Untouched
      <4>2. CASE d # t
        <5>1. x # r
          BY <1>1, <1>2, <3>2, <4>2
        <5> QED
          BY <1>2, <2>1, <2>2, <2>8, <3>2, <4>2, <5>1 DEF UInv, Untouched
      <4> QED
        BY <4>1, <4>2
    <3> QED
      BY <3>1, <3>2 DEF Untouched
  <2>10. InFlight'
    BY <1>1, <1>2, <2>1, <2>2 DEF UInv, InFlight, Record, Suspended
  <2> QED
    BY <1>3, <2>7, <2>9, <2>10
<1>5. CASE SendToCoP(t)
  <2>1. UNCHANGED <<outcome, humanQueue, idx, cop, transport, cur>>
    BY <1>2, <1>5 DEF SendToCoP, SendRecord
  <2>2. /\ send' \in [Tasks -> SendStates] /\ send'[t] # "none"
        /\ \A d \in Tasks : d # t => send'[d] = send[d] /\ attempt'[d] = attempt[d]
        /\ transport = "live" => /\ attempt'[t] \in Nat /\ send'[t] # "ok"
                                 /\ send'[t] = "posting" => attempt'[t] = 1
        /\ transport = "legacy" => send'[t] \in {"posting", "failed"}
        /\ transport \in {"dry_run", "local"} => send'[t] \in {"ok", "failed"}
    <3>1. /\ send \in [Tasks -> SendStates] /\ attempt \in [Tasks -> 0 .. RetryAttempts]
          /\ RetryAttempts \in Nat \ {0} /\ transport \in Transports
      BY ClientAssumption DEF UInv, IInv, TypeOK, RestTypeOK
    <3>2. CASE transport \in {"dry_run", "live", "legacy"} /\ MapRaises(t)
      BY <3>1, <3>2 DEF MapRaises, SendStates
    <3>3. CASE transport = "dry_run" /\ send' = [send EXCEPT ![t] = "ok"] /\ UNCHANGED attempt
      BY <3>1, <3>3 DEF SendStates
    <3>4. CASE transport = "live" /\ DoPost(t, 1)
      BY <3>1, <3>4 DEF DoPost, SendStates
    <3>5. CASE transport = "legacy" /\ send' = [send EXCEPT ![t] = "posting"] /\ UNCHANGED attempt
      BY <3>1, <3>5 DEF SendStates
    <3>6. CASE transport = "local" /\ send' = [send EXCEPT ![t] = "ok"] /\ UNCHANGED attempt
      BY <3>1, <3>6 DEF SendStates
    <3> QED
      BY <1>5, <3>2, <3>3, <3>4, <3>5, <3>6 DEF SendToCoP, SendRecord
  <2>3. ReviewQueueIsExact'
    BY <2>1 DEF UInv, ReviewQueueIsExact
  <2>4. Untouched'
    BY <1>2, <2>1, <2>2 DEF UInv, Untouched
  <2>5. InFlight'
    <3> SUFFICES ASSUME NEW d \in Tasks, send'[d] # "none"
                 PROVE  /\ transport = "live" => /\ cop[Record(d)] <= attempt'[d]
                                                 /\ send'[d] = "posting" => cop[Record(d)] < attempt'[d]
                        /\ transport = "legacy" => /\ cop[Record(d)] <= 1
                                                   /\ send'[d] = "posting" => cop[Record(d)] = 0
                        /\ transport \in {"dry_run", "local"} => send'[d] \notin {"posting", "backoff"}
                        /\ send'[d] = "ok" /\ transport \in {"live", "legacy"} => cop[Record(d)] > 0
      BY <2>1 DEF InFlight, Record, Suspended
    <3>1. CASE d = t
      BY <1>1, <2>2, <3>1 DEF r
    <3>2. CASE d # t
      BY <2>2, <3>2 DEF UInv, InFlight, Suspended
    <3> QED
      BY <3>1, <3>2
  <2> QED
    BY <1>3, <2>3, <2>4, <2>5
<1> QED
  BY <1>4, <1>5 DEF DispatchRecord

LEMMA FinishUInv ==
  ASSUME UInv, NEW t \in Tasks, FinishRecord(t)
  PROVE  OnePlace' /\ Untouched' /\ InFlight' /\ ReviewQueueIsExact'
<1> DEFINE r == Record(t)
<1>0. pc[t] = "push" /\ idx[t] <= NumRecords(cur[t])
  BY DEF FinishRecord, UInv, IInv, TaskPlace
<1>1. /\ r \in Records /\ outcome[r] = "none"
      /\ cur[t] \notin fresh \union evicted \union Elements(pauseQueue)
      /\ \A d \in Tasks : d # t => cur[d] # cur[t]
      /\ \A i \in 1 .. Len(humanQueue) : humanQueue[i] # r
      /\ r[1] = cur[t] /\ r[2] = idx[t]
  BY <1>0, AtRecord DEF Record
<1>2. /\ UNCHANGED <<pauseQueue, cur, fresh, evicted, cop, transport, attempt, humanQueue>>
      /\ idx \in [Tasks -> Nat] /\ idx' = [idx EXCEPT ![t] = @ + 1]
      /\ send \in [Tasks -> SendStates] /\ send' = [send EXCEPT ![t] = "none"]
      /\ outcome \in [Records -> Outcomes]
      /\ \E w \in {"written", "failed"} : outcome' = [outcome EXCEPT ![r] = w]
  BY DEF FinishRecord, UInv, IInv, TypeOK, RestTypeOK
<1>3. OnePlace'
  BY <1>2, PlacesKept
<1>a. \A s \in Records : s[2] \in Nat /\ s = <<s[1], s[2]>>
  BY RecordsOfUpdate, NumRecordsPositive
<1> HIDE DEF r
<1>4. ReviewQueueIsExact'
  BY <1>1, <1>2 DEF UInv, ReviewQueueIsExact
<1>5. Untouched'
  <2>1. \A x \in Records : x # r => outcome'[x] = outcome[x]
    BY <1>2
  <2>2. \A x \in Records : x[1] \in fresh' \union evicted' \union Elements(pauseQueue') =>
          outcome'[x] = "none" /\ cop'[x] = 0
    BY <1>1, <1>2, <2>1 DEF UInv, Untouched
  <2>3. ASSUME NEW d \in Tasks, NEW x \in Records, x[1] = cur'[d]
        PROVE  /\ x[2] >= idx'[d] => outcome'[x] = "none"
               /\ x[2] > idx'[d] \/ (x[2] = idx'[d] /\ send'[d] = "none") => cop'[x] = 0
    <3>1. CASE d = t
      <4>1. idx'[t] = idx[t] + 1 /\ idx[t] \in Nat /\ x[2] \in Nat /\ x[1] = cur[t]
        BY <1>2, <1>a, <2>3, <3>1
      <4>2. ASSUME x[2] >= idx[t] + 1 PROVE outcome'[x] = "none" /\ cop'[x] = 0
        <5>1. x # r /\ x[2] > idx[t] /\ x[2] >= idx[t]
          BY <1>1, <4>1, <4>2
        <5>2. outcome[x] = "none" /\ cop[x] = 0
          BY <4>1, <5>1 DEF UInv, Untouched
        <5> QED
          BY <1>2, <2>1, <5>1, <5>2
      <4> QED
        BY <3>1, <4>1, <4>2
    <3>2. CASE d # t
      <4>1. x # r
        BY <1>1, <1>2, <2>3, <3>2
      <4> QED
        BY <1>2, <2>1, <2>3, <3>2, <4>1 DEF UInv, Untouched
    <3> QED
      BY <3>1, <3>2
  <2> QED
    BY <2>2, <2>3 DEF Untouched
<1>6. InFlight'
  BY <1>2 DEF UInv, InFlight, Record, Suspended
<1> QED
  BY <1>3, <1>4, <1>5, <1>6

LEMMA ReturnUInv ==
  ASSUME UInv, NEW t \in Tasks, ReturnFromPush(t)
  PROVE  OnePlace' /\ Untouched' /\ InFlight' /\ ReviewQueueIsExact'
<1>1. /\ UNCHANGED <<transport, send, attempt, cop, pauseQueue, humanQueue, fresh,
                     evicted, outcome>>
      /\ cur \in [Tasks -> Updates \union {NoUpdate}] /\ cur' = [cur EXCEPT ![t] = NoUpdate]
      /\ idx \in [Tasks -> Nat] /\ idx' = [idx EXCEPT ![t] = 0] /\ send[t] = "none"
      /\ fresh \subseteq Updates /\ evicted \subseteq Updates /\ pauseQueue \in Seq(Updates)
  BY DEF ReturnFromPush, restVars, histVars, UInv, IInv, TypeOK
<1>2. NoUpdate \notin Updates /\ Elements(pauseQueue) \subseteq Updates
  BY <1>1, WriterAssumption, ElementOfSeq DEF Elements
<1>3. OnePlace'
  BY <1>1, <1>2 DEF UInv, OnePlace
<1>4. \A r \in Records : r[1] # NoUpdate
  BY <1>2, RecordsOfUpdate
<1>5. Untouched'
  BY <1>1, <1>4 DEF UInv, Untouched
<1>6. InFlight'
  BY <1>1 DEF UInv, InFlight, Record, Suspended
<1>7. ReviewQueueIsExact'
  BY <1>1 DEF UInv, ReviewQueueIsExact
<1> QED
  BY <1>3, <1>5, <1>6, <1>7

LEMMA WakeUpUInv ==
  ASSUME UInv, NEW t \in Tasks, WakeUp(t)
  PROVE  OnePlace' /\ Untouched' /\ InFlight' /\ ReviewQueueIsExact'
<1> DEFINE r == Record(t)
<1>0. send[t] # "none"
  BY DEF WakeUp, Respond, Expire, Retry
<1>1. /\ pc[t] = "push" /\ idx[t] <= NumRecords(cur[t]) /\ idx[t] \in Nat
      /\ send[t] = "backoff" => transport = "live"
  BY <1>0, TaskFacts DEF UInv, IInv, TaskPlace
<1>2. /\ r \in Records /\ r[1] = cur[t] /\ r[2] = idx[t]
      /\ cur[t] \notin fresh \union evicted \union Elements(pauseQueue)
      /\ \A d \in Tasks : d # t => cur[d] # cur[t]
  BY <1>1, AtRecord DEF Record
<1>3. /\ UNCHANGED <<pauseQueue, humanQueue, cur, idx, fresh, evicted, outcome, transport>>
      /\ cop \in [Records -> Nat] /\ attempt \in [Tasks -> 0 .. RetryAttempts]
      /\ RetryAttempts \in Nat /\ transport \in Transports
  BY ClientAssumption
     DEF WakeUp, Respond, Expire, Retry, histVars, UInv, IInv, TypeOK, RestTypeOK
<1>4. /\ \A x \in Records : x # r => cop'[x] = cop[x]
      /\ \A d \in Tasks : d # t => send'[d] = send[d] /\ attempt'[d] = attempt[d]
      /\ send'[t] \in {"posting", "backoff", "ok", "failed"}
      /\ transport \in {"live", "legacy"}
      /\ transport = "live" => /\ cop'[r] <= attempt'[t]
                               /\ send'[t] = "posting" => cop'[r] < attempt'[t]
      /\ transport = "legacy" => cop'[r] <= 1 /\ send'[t] # "posting"
      /\ send'[t] = "backoff" => transport = "live"
      /\ send'[t] = "ok" => cop'[r] > 0
  <2>1. /\ transport = "live" => /\ cop[r] <= attempt[t]
                                 /\ send[t] = "posting" => cop[r] < attempt[t]
        /\ transport = "legacy" => /\ cop[r] <= 1
                                   /\ send[t] = "posting" => cop[r] = 0
        /\ send[t] \in {"posting", "backoff"} => transport \in {"live", "legacy"}
    BY <1>0, <1>3 DEF UInv, InFlight, Suspended, Transports
  <2>2. cop[r] \in Nat /\ attempt[t] \in Nat /\ send \in [Tasks -> SendStates]
    BY <1>2, <1>3 DEF UInv, IInv, TypeOK, RestTypeOK
  <2> HIDE DEF r
  <2>3. CASE Respond(t, r)
    BY <1>2, <1>3, <2>1, <2>2, <2>3 DEF Respond
  <2>4. CASE Expire(t, r)
    <3>1. cop'[r] = cop[r] \/ cop'[r] = cop[r] + 1
      BY <1>2, <1>3, <2>4 DEF Expire
    <3>2. /\ \A x \in Records : x # r => cop'[x] = cop[x]
          /\ send'[t] \in {"backoff", "failed"} /\ attempt' = attempt
          /\ \A d \in Tasks : d # t => send'[d] = send[d]
          /\ send'[t] = "backoff" => transport = "live"
          /\ send[t] = "posting"
      BY <1>2, <1>3, <2>2, <2>4 DEF Expire, MayRetry
    <3> QED
      BY <2>1, <2>2, <3>1, <3>2
  <2>5. CASE Retry(t)
    <3>1. attempt'[t] = attempt[t] + 1 /\ cop' = cop /\ transport = "live"
          /\ send'[t] \in {"posting", "failed"}
          /\ \A d \in Tasks : d # t => send'[d] = send[d] /\ attempt'[d] = attempt[d]
      BY <1>1, <1>3, <2>2, <2>5 DEF Retry, DoPost
    <3> QED
      BY <2>1, <2>2, <3>1
  <2> QED
    BY <2>3, <2>4, <2>5 DEF WakeUp, r
<1>5. OnePlace'
  BY <1>3, PlacesKept
<1>6. ReviewQueueIsExact'
  BY <1>3 DEF UInv, ReviewQueueIsExact
<1> HIDE DEF r
<1>7. Untouched'
  <2>1. \A x \in Records : x[1] \in fresh' \union evicted' \union Elements(pauseQueue') =>
          outcome'[x] = "none" /\ cop'[x] = 0
    BY <1>2, <1>3, <1>4 DEF UInv, Untouched
  <2>2. ASSUME NEW d \in Tasks, NEW x \in Records, x[1] = cur'[d]
        PROVE  /\ x[2] >= idx'[d] => outcome'[x] = "none"
               /\ x[2] > idx'[d] \/ (x[2] = idx'[d] /\ send'[d] = "none") => cop'[x] = 0
    <3>1. CASE d = t
      <4>1. x[2] > idx[t] => x # r
        BY <1>1, <1>2
      <4> QED
        BY <1>3, <1>4, <2>2, <3>1, <4>1 DEF UInv, Untouched
    <3>2. CASE d # t
      <4>1. x # r
        BY <1>2, <1>3, <2>2, <3>2
      <4> QED
        BY <1>3, <1>4, <2>2, <3>2, <4>1 DEF UInv, Untouched
    <3> QED
      BY <3>1, <3>2
  <2> QED
    BY <2>1, <2>2 DEF Untouched
<1>8. InFlight'
  <2> SUFFICES ASSUME NEW d \in Tasks, send'[d] # "none"
               PROVE  /\ transport = "live" => /\ cop'[Record(d)] <= attempt'[d]
                                               /\ send'[d] = "posting" => cop'[Record(d)] < attempt'[d]
                      /\ transport = "legacy" => /\ cop'[Record(d)] <= 1
                                                 /\ send'[d] = "posting" => cop'[Record(d)] = 0
                      /\ transport \in {"dry_run", "local"} => send'[d] \notin {"posting", "backoff"}
                      /\ send'[d] = "ok" /\ transport \in {"live", "legacy"} => cop'[Record(d)] > 0
    BY <1>3 DEF InFlight, Record, Suspended
  <2>1. CASE d = t
    BY <1>4, <2>1 DEF r
  <2>2. CASE d # t
    <3>1. Record(d) \in Records /\ Record(d) # r
      <4>1. send[d] # "none"
        BY <1>4, <2>2
      <4>2. pc[d] = "push" /\ idx[d] <= NumRecords(cur[d])
        BY <4>1 DEF UInv, IInv, TaskPlace
      <4>3. Record(d) \in Records /\ Record(d)[1] = cur[d]
        BY <4>2, RecordInRecords DEF Record, UInv, IInv
      <4> QED
        BY <1>2, <2>2, <4>3
    <3> QED
      BY <1>4, <2>2, <3>1 DEF UInv, InFlight, Suspended
  <2> QED
    BY <2>1, <2>2
<1> QED
  BY <1>5, <1>6, <1>7, <1>8

LEMMA PopUInv ==
  ASSUME UInv, NEW n \in 1 .. Len(humanQueue), PopHumanQueue(n)
  PROVE  OnePlace' /\ Untouched' /\ InFlight' /\ ReviewQueueIsExact'
<1> DEFINE taken == SubSeq(humanQueue, 1, n)
<1>1. /\ UNCHANGED <<transport, send, attempt, cop, pauseQueue, cur, idx, fresh, evicted>>
      /\ humanQueue' = SubSeq(humanQueue, n + 1, Len(humanQueue))
      /\ outcome' = [r \in Records |-> IF r \in Elements(taken) THEN "reviewed" ELSE outcome[r]]
  BY DEF PopHumanQueue, restVars, taskVars
<1>2. humanQueue \in Seq(Records) /\ Distinct(humanQueue)
  BY DEF UInv, IInv, TypeOK, ReviewQueueIsExact, Distinct
<1>3. /\ Distinct(humanQueue')
      /\ Elements(humanQueue') = Elements(humanQueue) \ Elements(taken)
      /\ Elements(taken) \subseteq Elements(humanQueue)
  BY <1>1, <1>2, DropElements
<1> HIDE DEF taken
<1>4. \A x \in Records : outcome[x] = "review" <=> x \in Elements(humanQueue)
  BY DEF UInv, ReviewQueueIsExact, Elements
<1>5. \A x \in Records : outcome[x] = "none" => outcome'[x] = "none"
  BY <1>1, <1>3, <1>4
<1>6. ReviewQueueIsExact'
  <2>1. \A x \in Records : outcome'[x] = "review" <=> x \in Elements(humanQueue')
    BY <1>1, <1>3, <1>4
  <2> QED
    BY <1>3, <2>1 DEF ReviewQueueIsExact, Distinct, Elements
<1>7. OnePlace'
  BY <1>1, PlacesKept
<1>8. Untouched'
  BY <1>1, <1>5 DEF UInv, Untouched
<1>9. InFlight'
  BY <1>1 DEF UInv, InFlight, Record, Suspended
<1> QED
  BY <1>6, <1>7, <1>8, <1>9

(* Steps after which every update, record and send is where it was. *)
LEMMA StutterUInv ==
  ASSUME UInv, UNCHANGED <<transport, send, attempt, cop, pauseQueue, humanQueue,
                           cur, idx, fresh, evicted, outcome>>
  PROVE  OnePlace' /\ Untouched' /\ InFlight' /\ ReviewQueueIsExact'
<1>1. OnePlace' /\ Untouched' /\ ReviewQueueIsExact'
  BY PlacesKept DEF UInv, Untouched, ReviewQueueIsExact
<1>2. InFlight'
  BY DEF UInv, InFlight, Record, Suspended
<1> QED
  BY <1>1, <1>2

LEMMA InitUInv == Init => UInv
<1> SUFFICES ASSUME Init PROVE UInv
  OBVIOUS
<1>1. OnePlace
  <2>1. pauseQueue = <<>> /\ Len(pauseQueue) = 0 /\ Elements(pauseQueue) = {}
    BY DEF Init, Elements
  <2> QED
    BY <2>1, WriterAssumption DEF Init, OnePlace, Distinct
<1>2. Untouched
  <2>1. \A r \in Records : outcome[r] = "none" /\ cop[r] = 0
    BY DEF Init, RestInit
  <2> QED
    BY <2>1 DEF Untouched
<1>3. InFlight
  BY DEF Init, RestInit, InFlight
<1>4. ReviewQueueIsExact
  BY DEF Init, ReviewQueueIsExact
<1> QED
  BY <1>1, <1>2, <1>3, <1>4, InitIInv DEF UInv

LEMMA StepUInv == UInv /\ [Next]_vars => UInv'
<1> SUFFICES ASSUME UInv, [Next]_vars
             PROVE  OnePlace' /\ Untouched' /\ InFlight' /\ ReviewQueueIsExact'
  BY StepIInv DEF UInv
<1>1. ASSUME NEW u \in Updates, PushUpdate(u)
      PROVE  OnePlace' /\ Untouched' /\ InFlight' /\ ReviewQueueIsExact'
  <2>1. /\ Pipeline \in Tasks /\ pc[Pipeline] # "push" /\ pauseQueue \in Seq(Updates)
        /\ Distinct(pauseQueue) /\ Len(pauseQueue) <= MaxQueueSize
        /\ u \in fresh /\ u \notin Elements(pauseQueue)
    BY <1>1 DEF PushUpdate, Tasks, UInv, IInv, TypeOK, OnePlace
  <2> QED
    BY <1>1, <2>1, CallPushUInv DEF PushUpdate
<1>2. ASSUME NEW t \in Tasks, FlushNext(t)
      PROVE  OnePlace' /\ Untouched' /\ InFlight' /\ ReviewQueueIsExact'
  <2>1. /\ pauseQueue \in Seq(Updates) /\ pauseQueue # <<>> /\ Distinct(pauseQueue)
        /\ Len(pauseQueue) <= MaxQueueSize /\ Len(pauseQueue) \in Nat
        /\ pc[t] # "push" /\ fresh' = fresh
    BY <1>2, LenProperties DEF FlushNext, UInv, IInv, TypeOK, OnePlace
  <2>2. /\ Head(pauseQueue) \in Updates /\ Tail(pauseQueue) \in Seq(Updates)
        /\ Distinct(Tail(pauseQueue)) /\ Len(Tail(pauseQueue)) <= MaxQueueSize
        /\ Elements(Tail(pauseQueue)) \subseteq Elements(pauseQueue)
        /\ Head(pauseQueue) \notin Elements(Tail(pauseQueue))
        /\ Head(pauseQueue) \in Elements(pauseQueue)
    BY <2>1, TailElements, WriterAssumption
  <2>3. fresh' = fresh \ {Head(pauseQueue)}
    BY <2>1, <2>2 DEF UInv, OnePlace
  <2> QED
    BY <1>2, <2>1, <2>2, <2>3, CallPushUInv DEF FlushNext
<1>3. CASE Pause \/ ConfigureClient \/ UNCHANGED vars
  BY <1>3, StutterUInv
     DEF Pause, ConfigureClient, Open, Close, vars, restVars, taskVars, histVars
<1>4. ASSUME NEW t \in Tasks, Resume(t) \/ FlushDone(t)
      PROVE  OnePlace' /\ Untouched' /\ InFlight' /\ ReviewQueueIsExact'
  BY <1>4, StutterUInv DEF Resume, FlushDone, restVars, histVars
<1>5. ASSUME NEW t \in Tasks, Step(t)
      PROVE  OnePlace' /\ Untouched' /\ InFlight' /\ ReviewQueueIsExact'
  BY <1>2, <1>4, <1>5, DispatchUInv, FinishUInv, ReturnUInv, WakeUpUInv DEF Step
<1>6. Operators \subseteq Tasks
  BY DEF Tasks
<1> QED
  BY <1>1, <1>3, <1>4, <1>5, <1>6, PopUInv DEF Next

LEMMA SpecUInv == Spec => []UInv
  BY InitUInv, StepUInv, PTL DEF Spec

(* In every run the review queue holds exactly the records that wait for an   *)
(* operator, each of them once (_human_queue, pop_human_queue).               *)
THEOREM ReviewQueueCorrect == Spec => []ReviewQueueIsExact
<1>1. UInv => ReviewQueueIsExact
  BY DEF UInv
<1> QED
  BY <1>1, SpecUInv, PTL

-----------------------------------------------------------------------------
(* Delivery. *)

(* The server's copies of a record change only by the task that sends it. *)
LEMMA CopChanges ==
  ASSUME UInv, [Next]_vars, NEW r \in Records
  PROVE  /\ transport' = transport
         /\ \/ cop'[r] = cop[r]
            \/ \E t \in Tasks : /\ WakeUp(t) /\ r = Record(t)
                                /\ transport \in {"live", "legacy"}
                                /\ cop'[r] \in {cop[r], cop[r] + 1}
<1>1. ASSUME NEW t \in Tasks, WakeUp(t), r # Record(t) \/ Retry(t)
      PROVE  cop'[r] = cop[r]
  BY <1>1 DEF WakeUp, Respond, Expire, Retry, UInv, IInv, TypeOK, RestTypeOK
<1>2. ASSUME NEW t \in Tasks, WakeUp(t), ~Retry(t), r = Record(t)
      PROVE  transport \in {"live", "legacy"} /\ cop'[r] \in {cop[r], cop[r] + 1}
  <2>1. cop \in [Records -> Nat] /\ transport \in Transports
    BY DEF UInv, IInv, TypeOK, RestTypeOK
  <2>2. send[t] = "posting"
    BY <1>2 DEF WakeUp, Respond, Expire
  <2>3. transport \in {"live", "legacy"}
    BY <2>1, <2>2 DEF UInv, InFlight, Suspended, Transports
  <2> QED
    BY <1>2, <2>1, <2>3 DEF WakeUp, Respond, Expire
<1>3. ASSUME NEW t \in Tasks, WakeUp(t) PROVE transport' = transport
  BY <1>3 DEF WakeUp, Respond, Expire, Retry
<1>4. \/ UNCHANGED <<cop, transport>>
      \/ \E t \in Tasks : WakeUp(t)
  <2>1. (\E u \in Updates : PushUpdate(u)) \/ Pause \/ ConfigureClient \/ UNCHANGED vars
          => UNCHANGED <<cop, transport>>
    BY DEF PushUpdate, Pause, ConfigureClient, Open, Close, vars, restVars
  <2>2. (\E t \in Operators : Resume(t)) \/ (\E n \in 1 .. Len(humanQueue) : PopHumanQueue(n))
          => UNCHANGED <<cop, transport>>
    BY DEF Resume, PopHumanQueue, restVars
  <2>3. ASSUME NEW t \in Tasks, DispatchRecord(t) PROVE UNCHANGED <<cop, transport>>
    BY <2>3 DEF DispatchRecord, QueueForHuman, SendToCoP, SendRecord, restVars
  <2>4. (\E t \in Tasks : FinishRecord(t) \/ ReturnFromPush(t) \/ FlushNext(t) \/ FlushDone(t))
          => UNCHANGED <<cop, transport>>
    BY DEF FinishRecord, ReturnFromPush, FlushNext, FlushDone, restVars
  <2> QED
    BY <2>1, <2>2, <2>3, <2>4 DEF Next, Step
<1> QED
  BY <1>1, <1>2, <1>3, <1>4

(* A record becomes written only when the send that ends has succeeded. *)
LEMMA WrittenWasSent ==
  ASSUME UInv, [Next]_vars, NEW r \in Records, outcome'[r] = "written"
  PROVE  \/ outcome[r] = "written"
         \/ transport \in {"live", "legacy"} => cop[r] > 0
<1>0. outcome \in [Records -> Outcomes]
  BY DEF UInv, IInv, TypeOK
<1>1. ASSUME NEW t \in Tasks, FinishRecord(t), outcome[r] # "written"
      PROVE  transport \in {"live", "legacy"} => cop[r] > 0
  <2>1. r = Record(t) /\ send[t] = "ok"
    BY <1>0, <1>1 DEF FinishRecord
  <2> QED
    BY <2>1 DEF UInv, InFlight
<1>2. ASSUME NEW t \in Tasks, DispatchRecord(t) PROVE outcome[r] = "written"
  BY <1>0, <1>2 DEF DispatchRecord, QueueForHuman, SendToCoP
<1>3. ASSUME NEW n \in 1 .. Len(humanQueue), PopHumanQueue(n) PROVE outcome[r] = "written"
  BY <1>0, <1>3 DEF PopHumanQueue
<1>4. (\E u \in Updates : PushUpdate(u)) \/ Pause \/ ConfigureClient \/ UNCHANGED vars
        \/ (\E t \in Operators : Resume(t)) => outcome' = outcome
  BY DEF PushUpdate, Pause, ConfigureClient, Resume, vars, histVars
<1>5. (\E t \in Tasks : ReturnFromPush(t) \/ FlushNext(t) \/ FlushDone(t) \/ WakeUp(t))
        => outcome' = outcome
  BY DEF ReturnFromPush, FlushNext, FlushDone, WakeUp, histVars
<1> QED
  BY <1>1, <1>2, <1>3, <1>4, <1>5 DEF Next, Step

LEMMA StepDelivery == UInv /\ UInv' /\ DeliveryIsHonest /\ [Next]_vars => DeliveryIsHonest'
<1> SUFFICES ASSUME UInv, UInv', DeliveryIsHonest, [Next]_vars, NEW r \in Records
             PROVE  /\ outcome'[r] = "written" /\ transport' \in {"live", "legacy"} => cop'[r] > 0
                    /\ cop'[r] <= RetryAttempts
                    /\ transport' = "legacy" => cop'[r] <= 1
                    /\ transport' \in {"dry_run", "local"} => cop'[r] = 0
  BY DEF DeliveryIsHonest
<1>1. /\ cop[r] \in Nat /\ cop'[r] \in Nat /\ RetryAttempts \in Nat \ {0}
      /\ transport' = transport
      /\ outcome[r] = "written" /\ transport \in {"live", "legacy"} => cop[r] > 0
      /\ cop[r] <= RetryAttempts
      /\ transport = "legacy" => cop[r] <= 1
      /\ transport \in {"dry_run", "local"} => cop[r] = 0
  BY CopChanges, ClientAssumption DEF DeliveryIsHonest, UInv, IInv, TypeOK, RestTypeOK
<1>2. outcome'[r] = "written" /\ transport \in {"live", "legacy"} => cop[r] > 0
  BY <1>1, WrittenWasSent
<1>3. CASE cop'[r] = cop[r]
  BY <1>1, <1>2, <1>3
<1>4. CASE cop'[r] # cop[r]
  <2>1. PICK t \in Tasks : WakeUp(t) /\ r = Record(t) /\ transport \in {"live", "legacy"}
                           /\ cop'[r] \in {cop[r], cop[r] + 1}
    BY <1>4, CopChanges
  <2>2. cop'[r] = cop[r] + 1
    BY <1>4, <2>1
  <2>3. send'[t] # "none" /\ r = Record(t)' /\ attempt'[t] \in 0 .. RetryAttempts
    BY <2>1 DEF WakeUp, Respond, Expire, Retry, DoPost, Record, UInv, IInv, TypeOK, RestTypeOK
  <2>4. /\ transport = "live" => cop'[r] <= attempt'[t]
        /\ transport = "legacy" => cop'[r] <= 1
    BY <1>1, <2>3 DEF UInv, InFlight
  <2> QED
    BY <1>1, <2>1, <2>2, <2>3, <2>4
<1> QED
  BY <1>3, <1>4

(* In every run a record reported as written is on the server, and no record  *)
(* gets there more often than one send may attempt, however the sends of the  *)
(* pipeline and of the flushing tasks overlap (_send_with_retry).             *)
THEOREM DeliveryCorrect == Spec => []DeliveryIsHonest
<1>1. Init => DeliveryIsHonest
  BY ClientAssumption DEF Init, RestInit, DeliveryIsHonest
<1> QED
  BY <1>1, SpecUInv, StepDelivery, PTL DEF Spec

-----------------------------------------------------------------------------
(* Overflow. *)

LossStep ==
  /\ evicted' # evicted =>
       /\ Len(pauseQueue) >= MaxQueueSize
       /\ fresh' # fresh
       /\ pauseQueue # <<>> => evicted' = evicted \union {Head(pauseQueue)}
  /\ \A r \in Records : outcome[r] # "lost" /\ outcome'[r] = "lost" =>
       Len(humanQueue) >= MaxQueueSize

LEMMA StepLoss == UInv /\ [Next]_vars => LossStep
<1> SUFFICES ASSUME UInv, [Next]_vars PROVE LossStep
  OBVIOUS
<1>0. /\ pauseQueue \in Seq(Updates) /\ humanQueue \in Seq(Records) /\ MaxQueueSize \in Nat
      /\ Len(pauseQueue) \in Nat /\ Len(humanQueue) \in Nat /\ Len(pauseQueue) <= MaxQueueSize
      /\ outcome \in [Records -> Outcomes]
  BY LenProperties, WriterAssumption DEF UInv, IInv, TypeOK, OnePlace
<1>1. ASSUME NEW u \in Updates, PushUpdate(u) PROVE LossStep
  <2> DEFINE s == Append(pauseQueue, u)
  <2>1. Len(s) = Len(pauseQueue) + 1 /\ (pauseQueue # <<>> => Head(s) = Head(pauseQueue))
    BY <1>0, AppendProperties, EmptySeq, LenProperties, HeadTailProperties
  <2>2. outcome' = outcome /\ fresh' = fresh \ {u} /\ u \in fresh
    BY <1>1 DEF PushUpdate
  <2>3. CASE evicted' = evicted \union PushedOut(s)
    BY <1>0, <2>1, <2>2, <2>3 DEF LossStep, PushedOut
  <2>4. CASE evicted' = evicted
    BY <2>2, <2>4 DEF LossStep
  <2> QED
    BY <1>1, <2>3, <2>4 DEF PushUpdate, CallPush, Enqueue, BeginUpdate
<1>2. ASSUME NEW t \in Tasks, FlushNext(t) PROVE LossStep
  <2>1. outcome' = outcome /\ pauseQueue # <<>>
    BY <1>2 DEF FlushNext
  <2>2. /\ Head(pauseQueue) \in Updates /\ Tail(pauseQueue) \in Seq(Updates)
        /\ Len(Append(Tail(pauseQueue), Head(pauseQueue))) = Len(pauseQueue)
    BY <1>0, <2>1, HeadTailProperties, AppendProperties
  <2>3. PushedOut(Append(Tail(pauseQueue), Head(pauseQueue))) = {}
    BY <1>0, <2>2 DEF PushedOut
  <2>4. evicted' = evicted
    BY <1>2, <2>3 DEF FlushNext, CallPush, Enqueue, BeginUpdate
  <2> QED
    BY <2>1, <2>4 DEF LossStep
<1>3. ASSUME NEW t \in Tasks, DispatchRecord(t) PROVE LossStep
  <2>1. evicted' = evicted
    BY <1>3 DEF DispatchRecord
  <2>2. CASE QueueForHuman(t)
    <3> DEFINE s == Append(humanQueue, Record(t))
    <3>1. Len(s) = Len(humanQueue) + 1
      <4>1. Record(t) \in Records
        BY <1>3, RecordInRecords DEF DispatchRecord, UInv, IInv
      <4> QED
        BY <1>0, <4>1, AppendProperties
    <3>2. \A r \in Records : outcome[r] # "lost" /\ outcome'[r] = "lost" => PushedOut(s) # {}
      BY <2>2 DEF QueueForHuman
    <3>3. PushedOut(s) # {} => Len(humanQueue) >= MaxQueueSize
      BY <1>0, <3>1 DEF PushedOut
    <3> QED
      BY <2>1, <3>2, <3>3 DEF LossStep
  <2>3. CASE SendToCoP(t)
    BY <2>1, <2>3 DEF SendToCoP, LossStep
  <2> QED
    BY <1>3, <2>2, <2>3 DEF DispatchRecord
<1>4. ASSUME NEW t \in Tasks, FinishRecord(t) PROVE LossStep
  BY <1>0, <1>4 DEF FinishRecord, LossStep
<1>5. ASSUME NEW n \in 1 .. Len(humanQueue), PopHumanQueue(n) PROVE LossStep
  BY <1>0, <1>5 DEF PopHumanQueue, LossStep
<1>6. Pause \/ ConfigureClient \/ UNCHANGED vars \/ (\E t \in Operators : Resume(t))
        => UNCHANGED <<evicted, outcome>>
  BY DEF Pause, ConfigureClient, Resume, vars, histVars
<1>7. (\E t \in Tasks : ReturnFromPush(t) \/ FlushDone(t) \/ WakeUp(t))
        => UNCHANGED <<evicted, outcome>>
  BY DEF ReturnFromPush, FlushDone, WakeUp, histVars
<1>8. UNCHANGED <<evicted, outcome>> => LossStep
  BY DEF LossStep
<1> QED
  BY <1>1, <1>2, <1>3, <1>4, <1>5, <1>6, <1>7, <1>8 DEF Next, Step

(* In every run an update is pushed out of the pause queue only by a new one  *)
(* that finds it full, and then it is the oldest; a record for review only    *)
(* when the review queue is full (deque(maxlen=max_queue_size)).              *)
THEOREM LossCorrect == Spec => LossOnlyByOverflow
<1>1. UInv /\ [Next]_vars => [LossStep]_vars
  BY StepLoss
<1>2. [][LossStep]_vars => LossOnlyByOverflow
  BY PTL DEF LossStep, LossOnlyByOverflow
<1> QED
  BY <1>1, <1>2, SpecUInv, PTL DEF Spec

-----------------------------------------------------------------------------
(* The refinement of UpdateLifecycle. *)

LEMMA StageIs ==
  ASSUME UInv, NEW u \in Updates
  PROVE  /\ StageOf(u) = "fresh" <=> u \in fresh
         /\ StageOf(u) = "dropped" <=> u \in evicted
         /\ StageOf(u) = "waiting" <=> u \in Elements(pauseQueue)
         /\ StageOf(u) = "writing" <=> \E t \in Tasks : cur[t] = u
         /\ StageOf(u) = "settled" <=> /\ u \notin fresh \union evicted \union Elements(pauseQueue)
                                       /\ \A t \in Tasks : cur[t] # u
  BY DEF StageOf, UInv, OnePlace

(* No update moves when none of the places of updates changes. *)
LEMMA StageKept ==
  ASSUME UNCHANGED <<fresh, evicted, pauseQueue, cur>>
  PROVE  UNCHANGED [u \in Updates |-> StageOf(u)]
<1>1. \A u \in Updates : StageOf(u)' = StageOf(u)
  BY DEF StageOf
<1> QED
  BY <1>1

(* push_update is entered while the writer is not paused: u, and no other     *)
(* update, begins to be written.                                              *)
LEMMA BeginStage ==
  ASSUME UInv, UInv', NEW t \in Tasks, pc[t] # "push", NEW u \in Updates, NEW q \in Seq(Updates),
         BeginUpdate(t, u, q), Elements(pauseQueue) \ {u} = Elements(q), u \notin Elements(q),
         fresh' = fresh \ {u}
  PROVE  [v \in Updates |-> StageOf(v)]' = [[v \in Updates |-> StageOf(v)] EXCEPT ![u] = "writing"]
<1>1. cur[t] = NoUpdate /\ NoUpdate \notin Updates /\ cur \in [Tasks -> Updates \union {NoUpdate}]
  BY TaskFacts, WriterAssumption DEF UInv, IInv, TypeOK
<1>2. evicted' = evicted /\ pauseQueue' = q /\ cur' = [cur EXCEPT ![t] = u]
  BY DEF BeginUpdate
<1>3. StageOf(u)' = "writing"
  <2>1. cur'[t] = u
    BY <1>1, <1>2
  <2>2. u \notin fresh' \union evicted' \union Elements(pauseQueue')
    BY <2>1 DEF UInv, OnePlace
  <2> QED
    BY <2>1, <2>2 DEF StageOf
<1>4. ASSUME NEW v \in Updates, v # u PROVE StageOf(v)' = StageOf(v)
  <2>1. (\E d \in Tasks : cur'[d] = v) <=> (\E d \in Tasks : cur[d] = v)
    BY <1>1, <1>2, <1>4
  <2>2. v \in Elements(pauseQueue') <=> v \in Elements(pauseQueue)
    BY <1>2, <1>4
  <2> QED
    BY <1>2, <1>4, <2>1, <2>2 DEF StageOf
<1> QED
  BY <1>3, <1>4

(* push_update is entered while the writer is paused. *)
LEMMA EnqueueStage ==
  ASSUME UInv, UInv', NEW u \in Updates, u \in fresh, Enqueue(u, pauseQueue), fresh' = fresh \ {u}
  PROVE  \/ [w \in Updates |-> StageOf(w)]' = [[w \in Updates |-> StageOf(w)] EXCEPT ![u] = "waiting"]
         \/ \E v \in Updates : /\ v = u \/ StageOf(v) = "waiting"
                               /\ [w \in Updates |-> StageOf(w)]'
                                    = [[w \in Updates |-> StageOf(w)]
                                         EXCEPT ![u] = "waiting", ![v] = "dropped"]
<1> DEFINE s == Append(pauseQueue, u)
<1>1. /\ pauseQueue \in Seq(Updates) /\ Distinct(pauseQueue) /\ u \notin Elements(pauseQueue)
      /\ u \notin evicted
  BY DEF UInv, IInv, TypeOK, OnePlace
<1>2. /\ s \in Seq(Updates) /\ s # <<>> /\ Distinct(s)
      /\ Elements(s) = Elements(pauseQueue) \union {u}
  BY <1>1, AppendElements, AppendProperties
<1>3. /\ cur' = cur /\ evicted' = evicted \union PushedOut(s)
      /\ PushedOut(s) \subseteq Elements(pauseQueue) \union {u}
      /\ Elements(pauseQueue') = (Elements(pauseQueue) \union {u}) \ PushedOut(s)
      /\ PushedOut(s) = {} \/ \E v : PushedOut(s) = {v}
  BY <1>2, BoundedElements DEF Enqueue, PushedOut
<1> HIDE DEF s
<1>4. ASSUME NEW w \in Updates, w # u, w \notin PushedOut(s) PROVE StageOf(w)' = StageOf(w)
  <2>1. /\ w \in fresh' <=> w \in fresh
        /\ w \in evicted' <=> w \in evicted
        /\ w \in Elements(pauseQueue') <=> w \in Elements(pauseQueue)
    BY <1>3, <1>4
  <2> QED
    BY <1>3, <2>1 DEF StageOf
<1>5. CASE PushedOut(s) = {}
  <2>1. StageOf(u)' = "waiting"
    <3>1. u \in Elements(pauseQueue')
      BY <1>3, <1>5
    <3> QED
      BY <3>1 DEF StageOf, UInv, OnePlace
  <2> QED
    BY <1>4, <1>5, <2>1
<1>6. ASSUME NEW v, PushedOut(s) = {v}
      PROVE  \E x \in Updates : /\ x = u \/ StageOf(x) = "waiting"
                                /\ [w \in Updates |-> StageOf(w)]'
                                     = [[w \in Updates |-> StageOf(w)]
                                          EXCEPT ![u] = "waiting", ![x] = "dropped"]
  <2>1. v \in Updates /\ (v = u \/ v \in Elements(pauseQueue))
    BY <1>1, <1>3, <1>6, ElementOfSeq DEF Elements
  <2>2. v = u \/ StageOf(v) = "waiting"
    BY <2>1 DEF StageOf, UInv, OnePlace
  <2>3. StageOf(v)' = "dropped"
    <3>1. v \in evicted'
      BY <1>3, <1>6
    <3> QED
      BY <3>1 DEF StageOf, UInv, OnePlace
  <2>4. u # v => StageOf(u)' = "waiting"
    <3>1. u # v => u \in Elements(pauseQueue')
      BY <1>3, <1>6
    <3> QED
      BY <3>1 DEF StageOf, UInv, OnePlace
  <2>5. [w \in Updates |-> StageOf(w)]'
          = [[w \in Updates |-> StageOf(w)] EXCEPT ![u] = "waiting", ![v] = "dropped"]
    BY <1>4, <1>6, <2>1, <2>3, <2>4
  <2> QED
    BY <2>1, <2>2, <2>5
<1> QED
  BY <1>3, <1>5, <1>6

(* In a flush the update that was taken from the head goes back to the tail. *)
LEMMA RequeueStage ==
  ASSUME UInv, UInv', pauseQueue # <<>>, Enqueue(Head(pauseQueue), Tail(pauseQueue)),
         fresh' = fresh
  PROVE  UNCHANGED [u \in Updates |-> StageOf(u)]
<1> DEFINE s == Append(Tail(pauseQueue), Head(pauseQueue))
<1>1. /\ pauseQueue \in Seq(Updates) /\ Distinct(pauseQueue) /\ Len(pauseQueue) <= MaxQueueSize
      /\ Len(pauseQueue) \in Nat /\ MaxQueueSize \in Nat
  BY LenProperties, WriterAssumption DEF UInv, IInv, TypeOK, OnePlace
<1>2. /\ Head(pauseQueue) \in Updates /\ Tail(pauseQueue) \in Seq(Updates)
      /\ Len(Tail(pauseQueue)) = Len(pauseQueue) - 1
      /\ Elements(pauseQueue) = Elements(Tail(pauseQueue)) \union {Head(pauseQueue)}
  BY <1>1, TailElements
<1>3. Len(s) = Len(pauseQueue) /\ Elements(s) = Elements(pauseQueue)
  <2> DEFINE q == Tail(pauseQueue)
             h == Head(pauseQueue)
  <2>1. Len(Append(q, h)) = Len(q) + 1 /\ Elements(Append(q, h)) = Elements(q) \union {h}
    <3> HIDE DEF q, h
    <3>1. q \in Seq(Updates) /\ h \in Updates
      BY <1>2 DEF q, h
    <3> QED
      BY <3>1, AppendElements
  <2> QED
    BY <1>1, <1>2, <2>1
<1>4. pauseQueue' = s /\ evicted' = evicted /\ cur' = cur
  <2>1. ~(Len(s) > MaxQueueSize)
    BY <1>1, <1>3
  <2>2. Bounded(s) = s /\ PushedOut(s) = {}
    BY <2>1 DEF Bounded, PushedOut
  <2> QED
    BY <2>2 DEF Enqueue
<1>5. \A u \in Updates : StageOf(u)' = StageOf(u)
  BY <1>3, <1>4 DEF StageOf
<1> QED
  BY <1>5

LEMMA ReturnStage ==
  ASSUME UInv, UInv', NEW t \in Tasks, ReturnFromPush(t)
  PROVE  /\ cur[t] \in Updates /\ StageOf(cur[t]) = "writing"
         /\ [u \in Updates |-> StageOf(u)]' = [[u \in Updates |-> StageOf(u)] EXCEPT ![cur[t]] = "settled"]
<1>1. /\ cur[t] \in Updates /\ NoUpdate \notin Updates
      /\ cur \in [Tasks -> Updates \union {NoUpdate}]
      /\ cur' = [cur EXCEPT ![t] = NoUpdate]
      /\ UNCHANGED <<pauseQueue, fresh, evicted>>
  BY TaskFacts, WriterAssumption DEF ReturnFromPush, histVars, UInv, IInv, TypeOK
<1>2. /\ cur[t] \notin fresh \union evicted \union Elements(pauseQueue)
      /\ \A d \in Tasks : d # t => cur[d] # cur[t]
  BY <1>1 DEF UInv, OnePlace
<1>3. StageOf(cur[t]) = "writing"
  BY <1>1, <1>2 DEF StageOf
<1>4. \A d \in Tasks : cur'[d] # cur[t]
  BY <1>1, <1>2
<1>5. ASSUME NEW v \in Updates, v # cur[t] PROVE StageOf(v)' = StageOf(v)
  <2>1. (\E d \in Tasks : cur'[d] = v) <=> (\E d \in Tasks : cur[d] = v)
    BY <1>1, <1>5
  <2> QED
    BY <1>1, <2>1 DEF StageOf
<1>6. ASSUME NEW v \in Updates, v = cur[t] PROVE StageOf(v)' = "settled"
  BY <1>1, <1>2, <1>4, <1>6 DEF StageOf
<1> QED
  BY <1>1, <1>3, <1>5, <1>6

LEMMA InitLifecycle == Init => Lifecycle!Init
<1>1. Init => \A u \in Updates : StageOf(u) = "fresh"
  BY DEF Init, StageOf
<1> QED
  BY <1>1 DEF Init, Lifecycle!Init

LEMMA StepLifecycle ==
  UInv /\ UInv' /\ [Next]_vars => [Lifecycle!Next]_(Lifecycle!lifecycleVars)
<1> SUFFICES ASSUME UInv, UInv', [Next]_vars
             PROVE  Lifecycle!Next \/ UNCHANGED <<paused, [u \in Updates |-> StageOf(u)]>>
  BY DEF Lifecycle!lifecycleVars
<1>1. ASSUME NEW u \in Updates, PushUpdate(u) PROVE Lifecycle!Take(u)
  <2>1. /\ Pipeline \in Tasks /\ pc[Pipeline] # "push" /\ u \in fresh
        /\ fresh' = fresh \ {u} /\ paused' = paused
        /\ pauseQueue \in Seq(Updates) /\ u \notin Elements(pauseQueue)
    BY <1>1 DEF PushUpdate, Tasks, UInv, IInv, TypeOK, OnePlace
  <2>2. StageOf(u) = "fresh"
    BY <2>1 DEF StageOf
  <2>3. CASE paused /\ Enqueue(u, pauseQueue)
    BY <2>1, <2>2, <2>3, EnqueueStage DEF Lifecycle!Take
  <2>4. CASE ~paused /\ BeginUpdate(Pipeline, u, pauseQueue)
    <3>1. Elements(pauseQueue) \ {u} = Elements(pauseQueue)
      BY <2>1
    <3> QED
      BY <2>1, <2>2, <2>4, <3>1, BeginStage DEF Lifecycle!Take
  <2> QED
    BY <1>1, <2>3, <2>4 DEF PushUpdate, CallPush
<1>2. ASSUME NEW t \in Tasks, FlushNext(t)
      PROVE  \/ \E u \in Updates : Lifecycle!Begin(u)
             \/ UNCHANGED <<paused, [u \in Updates |-> StageOf(u)]>>
  <2>1. /\ pauseQueue # <<>> /\ pc[t] # "push" /\ fresh' = fresh /\ paused' = paused
        /\ pauseQueue \in Seq(Updates) /\ Distinct(pauseQueue)
    BY <1>2 DEF FlushNext, UInv, IInv, TypeOK, OnePlace
  <2>2. /\ Head(pauseQueue) \in Updates /\ Tail(pauseQueue) \in Seq(Updates)
        /\ Elements(pauseQueue) = Elements(Tail(pauseQueue)) \union {Head(pauseQueue)}
        /\ Head(pauseQueue) \notin Elements(Tail(pauseQueue))
    BY <2>1, TailElements
  <2>3. StageOf(Head(pauseQueue)) = "waiting" /\ fresh \ {Head(pauseQueue)} = fresh
    BY <2>2 DEF StageOf, UInv, OnePlace
  <2>4. CASE paused /\ Enqueue(Head(pauseQueue), Tail(pauseQueue))
    BY <2>1, <2>4, RequeueStage
  <2>5. CASE ~paused /\ BeginUpdate(t, Head(pauseQueue), Tail(pauseQueue))
    <3>1. Elements(pauseQueue) \ {Head(pauseQueue)} = Elements(Tail(pauseQueue))
      BY <2>2
    <3> QED
      BY <2>1, <2>2, <2>3, <2>5, <3>1, BeginStage DEF Lifecycle!Begin
  <2> QED
    BY <1>2, <2>4, <2>5 DEF FlushNext, CallPush
<1>3. ASSUME NEW t \in Tasks, ReturnFromPush(t) PROVE \E u \in Updates : Lifecycle!Settle(u)
  <2>1. paused' = paused
    BY <1>3 DEF ReturnFromPush
  <2> QED
    BY <1>3, <2>1, ReturnStage DEF Lifecycle!Settle
<1>4. CASE Pause
  BY <1>4, StageKept DEF Pause, taskVars, histVars, Lifecycle!Next, Lifecycle!Halt
<1>5. ASSUME NEW t \in Operators, Resume(t) PROVE Lifecycle!Release
  BY <1>5, StageKept DEF Resume, histVars, Lifecycle!Release
<1>6. ConfigureClient \/ UNCHANGED vars \/ (\E n \in 1 .. Len(humanQueue) : PopHumanQueue(n))
        => UNCHANGED <<paused, [u \in Updates |-> StageOf(u)]>>
  BY StageKept DEF ConfigureClient, PopHumanQueue, vars, taskVars, histVars
<1>7. ASSUME NEW t \in Tasks, DispatchRecord(t) \/ FinishRecord(t) \/ FlushDone(t) \/ WakeUp(t)
      PROVE  UNCHANGED <<paused, [u \in Updates |-> StageOf(u)]>>
  BY <1>7, StageKept DEF DispatchRecord, FinishRecord, FlushDone, WakeUp, histVars
<1> QED
  BY <1>1, <1>2, <1>3, <1>4, <1>5, <1>6, <1>7 DEF Next, Step, Lifecycle!Next

(* The writer implements UpdateLifecycle: whatever the operator switches and  *)
(* however flushes overlap, an update is taken once, begins to be written     *)
(* only while the kill switch is off, is settled once, and is dropped only by *)
(* the arrival of another (push_update, flush_pause_queue).                   *)
THEOREM WriterImplementsLifecycle == Spec => LifecycleSpec
<1>1. UInv /\ UInv' /\ [Next]_vars => [Lifecycle!Next]_(Lifecycle!lifecycleVars)
  BY StepLifecycle
<1> QED
  BY <1>1, InitLifecycle, SpecUInv, PTL DEF Spec, LifecycleSpec, Lifecycle!Spec

-----------------------------------------------------------------------------
(* The counters. *)

Sending == {t \in Tasks : send[t] # "none"}

Balanced ==
  stats["total_records"] =
    stats["auto_writes"] + stats["flagged_writes"] + stats["human_queued"]
      + stats["errors"] + Cardinality(Sending)

(* One more send, one send less, or none of either. *)
LEMMA SendingChanges ==
  ASSUME IInv, IsFiniteSet(Sending), NEW t \in Tasks,
         \A d \in Tasks : d # t => send'[d] = send[d]
  PROVE  /\ IsFiniteSet(Sending') /\ Cardinality(Sending) \in Nat
         /\ send[t] = "none" /\ send'[t] # "none" => Cardinality(Sending') = Cardinality(Sending) + 1
         /\ send[t] # "none" /\ send'[t] = "none" => Cardinality(Sending') = Cardinality(Sending) - 1
         /\ (send[t] = "none" <=> send'[t] = "none") => Cardinality(Sending') = Cardinality(Sending)
<1>1. CASE send[t] = "none" /\ send'[t] # "none"
  <2>1. Sending' = Sending \union {t} /\ t \notin Sending
    BY <1>1 DEF Sending
  <2> QED
    BY <1>1, <2>1, FS_AddElement, FS_CardinalityType
<1>2. CASE send[t] # "none" /\ send'[t] = "none"
  <2>1. Sending' = Sending \ {t} /\ t \in Sending
    BY <1>2 DEF Sending
  <2> QED
    BY <1>2, <2>1, FS_RemoveElement, FS_CardinalityType
<1>3. CASE send[t] = "none" <=> send'[t] = "none"
  <2>1. Sending' = Sending
    BY <1>3 DEF Sending
  <2> QED
    BY <1>3, <2>1, FS_CardinalityType
<1> QED
  BY <1>1, <1>2, <1>3

CInv == IsFiniteSet(Sending) /\ CountersBalance

LEMMA StepCounters == IInv /\ IInv' /\ CInv /\ [Next]_vars => CInv'
<1> SUFFICES ASSUME IInv, IInv', CInv, [Next]_vars PROVE IsFiniteSet(Sending)' /\ Balanced'
  BY DEF CInv, CountersBalance, Balanced, Sending
<1>0. /\ stats \in [Counters -> Nat] /\ send \in [Tasks -> SendStates] /\ Balanced
      /\ IsFiniteSet(Sending) /\ Cardinality(Sending) \in Nat
      /\ {"total_records", "auto_writes", "flagged_writes", "human_queued", "errors"} = Counters
  BY FS_CardinalityType
     DEF CInv, CountersBalance, Balanced, Sending, IInv, TypeOK, RestTypeOK, Counters
<1>1. CASE UNCHANGED <<stats, send>>
  BY <1>0, <1>1 DEF Sending, Balanced
<1>2. ASSUME NEW t \in Tasks, DispatchRecord(t) PROVE IsFiniteSet(Sending)' /\ Balanced'
  <2>1. CASE QueueForHuman(t)
    <3>1. send' = send /\ Sending' = Sending
      BY <2>1 DEF QueueForHuman, restVars, Sending
    <3>2. /\ stats'["total_records"] = stats["total_records"] + 1
          /\ stats'["human_queued"] = stats["human_queued"] + 1
          /\ stats'["auto_writes"] = stats["auto_writes"]
          /\ stats'["flagged_writes"] = stats["flagged_writes"]
          /\ stats'["errors"] = stats["errors"]
      BY <1>0, <2>1 DEF QueueForHuman
    <3> QED
      BY <1>0, <3>1, <3>2 DEF Balanced, Counters
  <2>2. CASE SendToCoP(t)
    <3>1. /\ send[t] = "none" /\ send'[t] # "none"
          /\ \A d \in Tasks : d # t => send'[d] = send[d]
      BY <1>0, <2>2 DEF SendToCoP, SendRecord, MapRaises, DoPost
    <3>2. /\ stats'["total_records"] = stats["total_records"] + 1
          /\ \A c \in Counters \ {"total_records"} : stats'[c] = stats[c]
      BY <1>0, <2>2 DEF SendToCoP, Count
    <3>3. IsFiniteSet(Sending') /\ Cardinality(Sending') = Cardinality(Sending) + 1
      BY <1>0, <3>1, SendingChanges
    <3> QED
      BY <1>0, <3>2, <3>3 DEF Balanced, Counters
  <2> QED
    BY <1>2, <2>1, <2>2 DEF DispatchRecord
<1>3. ASSUME NEW t \in Tasks, FinishRecord(t) PROVE IsFiniteSet(Sending)' /\ Balanced'
  <2>1. /\ send[t] # "none" /\ send'[t] = "none"
        /\ \A d \in Tasks : d # t => send'[d] = send[d]
    BY <1>0, <1>3 DEF FinishRecord
  <2>2. PICK c \in {"errors", "auto_writes", "flagged_writes"} : stats' = [stats EXCEPT ![c] = @ + 1]
    BY <1>3 DEF FinishRecord, CountSend, Count
  <2>3. stats'[c] = stats[c] + 1 /\ \A d \in Counters \ {c} : stats'[d] = stats[d]
    BY <1>0, <2>2
  <2>4. IsFiniteSet(Sending') /\ Cardinality(Sending') = Cardinality(Sending) - 1
    BY <1>0, <2>1, SendingChanges
  <2> QED
    BY <1>0, <2>2, <2>3, <2>4 DEF Balanced, Counters
<1>4. ASSUME NEW t \in Tasks, WakeUp(t) PROVE IsFiniteSet(Sending)' /\ Balanced'
  <2>1. /\ send[t] # "none" /\ send'[t] # "none" /\ stats' = stats
        /\ \A d \in Tasks : d # t => send'[d] = send[d]
    BY <1>0, <1>4 DEF WakeUp, Respond, Expire, Retry, DoPost
  <2>2. IsFiniteSet(Sending') /\ Cardinality(Sending') = Cardinality(Sending)
    BY <1>0, <2>1, SendingChanges
  <2> QED
    BY <1>0, <2>1, <2>2 DEF Balanced
<1>5. (\E u \in Updates : PushUpdate(u)) \/ Pause \/ ConfigureClient \/ UNCHANGED vars
        => UNCHANGED <<stats, send>>
  BY DEF PushUpdate, Pause, ConfigureClient, Open, Close, vars, restVars
<1>6. (\E t \in Operators : Resume(t)) \/ (\E n \in 1 .. Len(humanQueue) : PopHumanQueue(n))
        => UNCHANGED <<stats, send>>
  BY DEF Resume, PopHumanQueue, restVars
<1>7. (\E t \in Tasks : ReturnFromPush(t) \/ FlushNext(t) \/ FlushDone(t))
        => UNCHANGED <<stats, send>>
  BY DEF ReturnFromPush, FlushNext, FlushDone, restVars
<1> QED
  BY <1>1, <1>2, <1>3, <1>4, <1>5, <1>6, <1>7 DEF Next, Step

(* In every run the counters account for every record that was dispatched,    *)
(* whatever order the sends of the tasks complete in (_stats).                *)
THEOREM CountersCorrect == Spec => []CountersBalance
<1>1. Init => CInv
  <2> SUFFICES ASSUME Init PROVE CInv
    OBVIOUS
  <2>1. Sending = {}
    BY DEF Init, RestInit, Sending
  <2>2. \A c \in Counters : stats[c] = 0
    BY DEF Init
  <2> QED
    BY <2>1, <2>2, FS_EmptySet DEF CInv, CountersBalance, Sending, Counters
<1>2. CInv => CountersBalance
  BY DEF CInv
<1> QED
  BY <1>1, <1>2, SpecIInv, StepCounters, PTL DEF Spec
=============================================================================
