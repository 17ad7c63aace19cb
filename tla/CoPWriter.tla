------------------------------ MODULE CoPWriter ------------------------------
(***************************************************************************)
(* The CoP writer (output/cop_writer.py) shared by the pipeline task and   *)
(* the tasks of the admin API (api.py), on one asyncio event loop.         *)
(*                                                                         *)
(* A task runs until it awaits something that is not ready; "loop" is the  *)
(* task that holds the event loop.  So the steps of two tasks interleave   *)
(* exactly where the code suspends: at an outstanding POST and in the      *)
(* backoff before a retry.                                                 *)
(***************************************************************************)
EXTENDS CoPRESTClient, FiniteSets

CONSTANTS
  MaxQueueSize,   \* max_queue_size, of both deques
  NoTask,
  NoUpdate

ASSUME WriterAssumption ==
  /\ MaxQueueSize \in Nat
  /\ NoTask \notin Tasks
  /\ NoUpdate \notin Updates

VARIABLES
  paused,      \* _paused
  pauseQueue,  \* _pause_queue
  humanQueue,  \* _human_queue
  stats,       \* _stats, without paused_queued (it only counts appends)
  loop,        \* the task that holds the event loop
  pc,          \* per task: where its coroutine is
  flushing,    \* per task: push_update was called by flush_pause_queue
  cur,         \* per task: the update push_update works on
  idx,         \* per task: the record of it that is being dispatched
  fresh,       \* updates push_update has not been called with yet
  evicted,     \* history: updates the full pause queue pushed out
  outcome      \* history: what became of each record

taskVars == <<loop, pc, flushing, cur, idx>>
histVars == <<fresh, evicted, outcome>>
vars == <<restVars, paused, pauseQueue, humanQueue, stats, taskVars, histVars>>

Counters == {"total_records", "auto_writes", "flagged_writes", "human_queued", "errors"}
Outcomes == {"none", "written", "failed", "review", "reviewed", "lost"}
Places == {"idle", "push", "flush"}

TypeOK ==
  /\ RestTypeOK
  /\ paused \in BOOLEAN
  /\ pauseQueue \in Seq(Updates)
  /\ humanQueue \in Seq(Records)
  /\ stats \in [Counters -> Nat]
  /\ loop \in Tasks \union {NoTask}
  /\ pc \in [Tasks -> Places]
  /\ flushing \in [Tasks -> BOOLEAN]
  /\ cur \in [Tasks -> Updates \union {NoUpdate}]
  /\ idx \in [Tasks -> Nat]
  /\ fresh \subseteq Updates
  /\ evicted \subseteq Updates
  /\ outcome \in [Records -> Outcomes]

Init ==
  /\ RestInit
  /\ paused = FALSE
  /\ pauseQueue = <<>>
  /\ humanQueue = <<>>
  /\ stats = [c \in Counters |-> 0]
  /\ loop = NoTask
  /\ pc = [t \in Tasks |-> "idle"]
  /\ flushing = [t \in Tasks |-> FALSE]
  /\ cur = [t \in Tasks |-> NoUpdate]
  /\ idx = [t \in Tasks |-> 0]
  /\ fresh = Updates
  /\ evicted = {}
  /\ outcome = [r \in Records |-> "none"]

-----------------------------------------------------------------------------
(* deque(maxlen=MaxQueueSize).append: the oldest element makes room. *)
Bounded(s) == IF Len(s) > MaxQueueSize THEN Tail(s) ELSE s
PushedOut(s) == IF Len(s) > MaxQueueSize THEN {Head(s)} ELSE {}

Elements(s) == {s[i] : i \in 1 .. Len(s)}

Record(t) == <<cur[t], idx[t]>>

Count(c) == stats' = [stats EXCEPT ![c] = @ + 1]

(* t holds the event loop. *)
Runs(t) == loop = t

-----------------------------------------------------------------------------
(* push_update(u), called by task t when the pause queue holds q: while the  *)
(* writer is paused the update joins the queue; otherwise                    *)
(* cop_update_to_records maps it and the loop over its records begins.       *)
Enqueue(u, q) ==
  LET s == Append(q, u)
  IN  /\ pauseQueue' = Bounded(s)
      /\ evicted' = evicted \union PushedOut(s)
      /\ UNCHANGED <<loop, pc, cur, idx>>

BeginUpdate(t, u, q) ==
  /\ pauseQueue' = q
  /\ cur' = [cur EXCEPT ![t] = u]
  /\ idx' = [idx EXCEPT ![t] = 1]
  /\ pc' = [pc EXCEPT ![t] = "push"]
  /\ loop' = t
  /\ UNCHANGED evicted

\* Fault: the kill switch is not looked at.
CallPush_IgnoringPause(t, u, q) == BeginUpdate(t, u, q)

CallPush(t, u, q) ==
  \/ paused /\ Enqueue(u, q)
  \/ ~paused /\ BeginUpdate(t, u, q)

(* The pipeline awaits push_update(u). *)
PushUpdate(u) ==
  /\ loop = NoTask
  /\ pc[Pipeline] = "idle"
  /\ u \in fresh
  /\ fresh' = fresh \ {u}
  /\ CallPush(Pipeline, u, pauseQueue)
  /\ UNCHANGED <<restVars, paused, humanQueue, stats, flushing, outcome>>

(* One turn of the record loop up to the send: count the record and dispatch *)
(* it by tier.  A human-tier record needs no send.                           *)
QueueForHuman(t) ==
  LET s == Append(humanQueue, Record(t))
  IN  /\ Tier(cur[t]) = "human"
      /\ humanQueue' = Bounded(s)
      /\ stats' = [stats EXCEPT !["total_records"] = @ + 1, !["human_queued"] = @ + 1]
      /\ outcome' = [r \in Records |-> IF r \in PushedOut(s) THEN "lost"
                                       ELSE IF r = Record(t) THEN "review"
                                       ELSE outcome[r]]
      /\ idx' = [idx EXCEPT ![t] = @ + 1]
      /\ UNCHANGED <<restVars, loop>>

(* _send_to_cop: REST client, legacy client, or local-only (nothing is sent).  *)
(* The task keeps the event loop unless the send suspends it.                  *)
SendToCoP(t) ==
  /\ Tier(cur[t]) # "human"
  /\ \/ SendRecord(t)
     \/ /\ transport = "legacy"
        /\ send[t] = "none"
        /\ \/ MapRaises(t)
           \/ send' = [send EXCEPT ![t] = "posting"] /\ UNCHANGED attempt
        /\ UNCHANGED <<transport, client, cop>>
     \/ /\ transport = "local"
        /\ send[t] = "none"
        /\ send' = [send EXCEPT ![t] = "ok"]
        /\ UNCHANGED <<transport, client, attempt, cop>>
  /\ loop' = IF Suspended(t)' THEN NoTask ELSE t
  /\ Count("total_records")
  /\ UNCHANGED <<humanQueue, idx, outcome>>

DispatchRecord(t) ==
  /\ Runs(t)
  /\ pc[t] = "push"
  /\ send[t] = "none"
  /\ idx[t] <= NumRecords(cur[t])
  /\ QueueForHuman(t) \/ SendToCoP(t)
  /\ UNCHANGED <<paused, pauseQueue, pc, flushing, cur, fresh, evicted>>

\* Fault: a send that fails is not counted.
CountSend_NoErrors(t) ==
  IF send[t] = "ok"
  THEN Count(IF Tier(cur[t]) = "auto" THEN "auto_writes" ELSE "flagged_writes")
  ELSE UNCHANGED stats

(* _write_auto and _write_flagged count a success, _send_to_cop a failure. *)
CountSend(t) ==
  Count(IF send[t] = "failed" THEN "errors"
        ELSE IF Tier(cur[t]) = "auto" THEN "auto_writes"
        ELSE "flagged_writes")

(* The send has completed: its WriteResult joins the results and the record *)
(* loop goes on.                                                            *)
FinishRecord(t) ==
  /\ Runs(t)
  /\ send[t] \in {"ok", "failed"}
  /\ CountSend(t)
  /\ outcome' = [outcome EXCEPT ![Record(t)] = IF send[t] = "ok" THEN "written" ELSE "failed"]
  /\ send' = [send EXCEPT ![t] = "none"]
  /\ idx' = [idx EXCEPT ![t] = @ + 1]
  /\ UNCHANGED <<transport, client, attempt, cop, paused, pauseQueue, humanQueue,
                 loop, pc, flushing, cur, fresh, evicted>>

(* push_update returns: to flush_pause_queue's loop, or to the pipeline. *)
ReturnFromPush(t) ==
  /\ Runs(t)
  /\ pc[t] = "push"
  /\ send[t] = "none"
  /\ idx[t] > NumRecords(cur[t])
  /\ cur' = [cur EXCEPT ![t] = NoUpdate]
  /\ idx' = [idx EXCEPT ![t] = 0]
  /\ pc' = [pc EXCEPT ![t] = IF flushing[t] THEN "flush" ELSE "idle"]
  /\ loop' = IF flushing[t] THEN t ELSE NoTask
  /\ UNCHANGED <<restVars, paused, pauseQueue, humanQueue, stats, flushing, histVars>>

-----------------------------------------------------------------------------
(* POST /admin/pause *)
Pause ==
  /\ loop = NoTask
  /\ paused' = TRUE
  /\ UNCHANGED <<restVars, pauseQueue, humanQueue, stats, taskVars, histVars>>

\* Fault: the backlog is left to a later call.
Resume_WithoutFlush(t) ==
  /\ loop = NoTask
  /\ pc[t] = "idle"
  /\ paused' = FALSE
  /\ UNCHANGED <<restVars, pauseQueue, humanQueue, stats, taskVars, histVars>>

(* POST /admin/resume: resume(), then flush_pause_queue() in the same task. *)
Resume(t) ==
  /\ loop = NoTask
  /\ pc[t] = "idle"
  /\ paused' = FALSE
  /\ pc' = [pc EXCEPT ![t] = "flush"]
  /\ flushing' = [flushing EXCEPT ![t] = TRUE]
  /\ loop' = t
  /\ UNCHANGED <<restVars, pauseQueue, humanQueue, stats, cur, idx, histVars>>

\* Fault: the update leaves the queue after it has been pushed, not before.
FlushNext_PushFirst(t) ==
  /\ Runs(t)
  /\ pc[t] = "flush"
  /\ pauseQueue # <<>>
  /\ CallPush(t, Head(pauseQueue), pauseQueue)
  /\ UNCHANGED <<restVars, paused, humanQueue, stats, flushing, fresh, outcome>>

(* One turn of flush_pause_queue: popleft, then push_update, which puts the *)
(* update back when the writer has been paused again.                       *)
FlushNext(t) ==
  /\ Runs(t)
  /\ pc[t] = "flush"
  /\ pauseQueue # <<>>
  /\ CallPush(t, Head(pauseQueue), Tail(pauseQueue))
  /\ UNCHANGED <<restVars, paused, humanQueue, stats, flushing, fresh, outcome>>

FlushDone(t) ==
  /\ Runs(t)
  /\ pc[t] = "flush"
  /\ pauseQueue = <<>>
  /\ pc' = [pc EXCEPT ![t] = "idle"]
  /\ flushing' = [flushing EXCEPT ![t] = FALSE]
  /\ loop' = NoTask
  /\ UNCHANGED <<restVars, paused, pauseQueue, humanQueue, stats, cur, idx, histVars>>

\* Fault: the records are handed out and stay in the queue.
PopHumanQueue_Peeks(n) ==
  /\ loop = NoTask
  /\ n \in 1 .. Len(humanQueue)
  /\ outcome' = [r \in Records |-> IF r \in Elements(SubSeq(humanQueue, 1, n))
                                   THEN "reviewed" ELSE outcome[r]]
  /\ UNCHANGED <<restVars, paused, pauseQueue, humanQueue, stats, taskVars, fresh, evicted>>

(* pop_human_queue(n) *)
PopHumanQueue(n) ==
  /\ loop = NoTask
  /\ n \in 1 .. Len(humanQueue)
  /\ outcome' = [r \in Records |-> IF r \in Elements(SubSeq(humanQueue, 1, n))
                                   THEN "reviewed" ELSE outcome[r]]
  /\ humanQueue' = SubSeq(humanQueue, n + 1, Len(humanQueue))
  /\ UNCHANGED <<restVars, paused, pauseQueue, stats, taskVars, fresh, evicted>>

(* open() and close() of the REST client. *)
ConfigureClient ==
  /\ loop = NoTask
  /\ Open \/ Close
  /\ UNCHANGED <<paused, pauseQueue, humanQueue, stats, taskVars, histVars>>

-----------------------------------------------------------------------------
(* What a suspended task waits for happens: the event loop takes it up again, *)
(* or, when the client will retry, leaves it suspended.                       *)
WakeUp(t) ==
  /\ loop = NoTask
  /\ \/ Respond(t, Record(t))
     \/ Expire(t, Record(t))
     \/ Retry(t)
  /\ loop' = IF Suspended(t)' THEN NoTask ELSE t
  /\ UNCHANGED <<paused, pauseQueue, humanQueue, stats, pc, flushing, cur, idx, histVars>>

(* Everything a task does once it has been called. *)
Step(t) ==
  \/ DispatchRecord(t)
  \/ FinishRecord(t)
  \/ ReturnFromPush(t)
  \/ FlushNext(t)
  \/ FlushDone(t)
  \/ WakeUp(t)

Next ==
  \/ \E u \in Updates : PushUpdate(u)
  \/ Pause
  \/ \E t \in Operators : Resume(t)
  \/ \E n \in 1 .. Len(humanQueue) : PopHumanQueue(n)
  \/ ConfigureClient
  \/ \E t \in Tasks : Step(t)

Spec == Init /\ [][Next]_vars

(* httpx and tenacity bound every wait, and asyncio runs ready tasks in FIFO  *)
(* order: a task that keeps becoming ready gets the event loop in the end,    *)
(* unless the task that holds it never gives it up.                           *)
FairSpec == Spec /\ \A t \in Tasks : SF_vars(Step(t))

-----------------------------------------------------------------------------
(* PROPERTIES *)

(* Tiered write authority: nothing of an update that the tier rules reserve   *)
(* for an operator is ever sent, on the direct path and on the way through    *)
(* the pause queue alike (classify_write_authority, _dispatch_record).        *)
HumanTierStaysLocal ==
  \A r \in Records : NeedsOperator(r[1]) =>
    /\ cop[r] = 0
    /\ outcome[r] \notin {"written", "failed"}
    /\ \A t \in Tasks : Record(t) = r => ~Suspended(t)

(* The counters the pipeline reports account for every record, whatever       *)
(* order sends of several tasks complete in (_stats).                         *)
CountersBalance ==
  stats["total_records"] =
    stats["auto_writes"] + stats["flagged_writes"] + stats["human_queued"]
      + stats["errors"] + Cardinality({t \in Tasks : send[t] # "none"})

(* A write that was reported as a success is on the server, and, however      *)
(* flushes and pushes overlap, a record gets there more than once only by the *)
(* retries of its one send: never on a transport without retries.             *)
DeliveryIsHonest ==
  \A r \in Records :
    /\ outcome[r] = "written" /\ transport \in {"live", "legacy"} => cop[r] > 0
    /\ cop[r] <= RetryAttempts
    /\ transport = "legacy" => cop[r] <= 1
    /\ transport \in {"dry_run", "local"} => cop[r] = 0

(* The records an operator has to decide on are those in the queue: a record  *)
(* is there once, until it is popped or pushed out (_human_queue).            *)
ReviewQueueIsExact ==
  /\ \A r \in Records :
       outcome[r] = "review" <=> \E i \in 1 .. Len(humanQueue) : humanQueue[i] = r
  /\ \A i, j \in 1 .. Len(humanQueue) : humanQueue[i] = humanQueue[j] => i = j

(* An update that was taken is lost only when a further one arrives while the *)
(* pause queue is full, and then it is the oldest; a record for review only   *)
(* when the review queue is full.  The re-append in a flush loses nothing.    *)
LossOnlyByOverflow ==
  [][/\ evicted' # evicted =>
          /\ Len(pauseQueue) >= MaxQueueSize
          /\ fresh' # fresh
          /\ pauseQueue # <<>> => evicted' = evicted \union {Head(pauseQueue)}
     /\ \A r \in Records : outcome[r] # "lost" /\ outcome'[r] = "lost" =>
          Len(humanQueue) >= MaxQueueSize]_vars

(* The writer implements the life of an update: taken once, begun only while  *)
(* the kill switch is off, settled once.                                      *)
StageOf(u) ==
  IF u \in fresh THEN "fresh"
  ELSE IF u \in evicted THEN "dropped"
  ELSE IF u \in Elements(pauseQueue) THEN "waiting"
  ELSE IF \E t \in Tasks : cur[t] = u THEN "writing"
  ELSE "settled"

Lifecycle == INSTANCE UpdateLifecycle
               WITH halted <- paused, stage <- [u \in Updates |-> StageOf(u)]

LifecycleSpec == Lifecycle!Spec

(* No update is stranded: once the operator has resumed for good, the backlog *)
(* is drained, because /admin/resume flushes in the same request.             *)
BacklogIsDrained == <>[](~paused) => <>[](pauseQueue = <<>>)

(* A push and a flush return, whatever the server does, as long as the        *)
(* operator does not leave the writer paused.                                 *)
CallsReturnUnlessPaused ==
  []<>(~paused) => \A t \in Tasks : pc[t] # "idle" ~> pc[t] = "idle"

(* CLAIMS OF THE DOCUMENTATION, which the code does not keep *)

(* "Drain the pause queue by processing all queued updates. Returns results   *)
(* for all flushed updates." (flush_pause_queue, line 144)                    *)
FlushReturns == \A t \in Operators : pc[t] = "flush" ~> pc[t] = "idle"

==============================================================================
