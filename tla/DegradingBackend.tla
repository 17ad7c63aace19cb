--------------------------- MODULE DegradingBackend ---------------------------
(***************************************************************************)
(* The degrading backend (backend/degrading.py): an ordered list of        *)
(* backends, each behind a circuit breaker, tried until one of them gives  *)
(* a result that is confident enough.  A call suspends only while it waits *)
(* for a backend; "loop" is the caller that holds the event loop.  The     *)
(* backends with a blocking client share one thread pool.                  *)
(***************************************************************************)
EXTENDS CircuitBreaker, ThreadPool

CONSTANTS
  NumSlots,        \* how many backends there are
  Kind,            \* per slot: openai, bedrock, anthropic, asksage or regex
  Types,           \* UpdateType values, and one for a schema without update_type
  Levels,          \* confidences a backend may return, in percent
  TypeThreshold,   \* cascade_thresholds: a function on the types it has an entry for
  HasDefault,      \* cascade_thresholds has a "default" entry
  DefaultThreshold,
  ScalarThreshold, \* cascade_threshold
  NoCaller, NoResult, Passthrough

ASSUME BackendAssumption ==
  /\ NumSlots \in Nat \ {0}
  /\ Kind \in [1 .. NumSlots -> {"openai", "bedrock", "anthropic", "asksage", "regex"}]
  /\ Levels \subseteq 0 .. 100
  /\ HasDefault \in BOOLEAN
  /\ DOMAIN TypeThreshold \subseteq Types
  /\ \A u \in DOMAIN TypeThreshold : TypeThreshold[u] \in 0 .. 100
  /\ DefaultThreshold \in 0 .. 100
  /\ ScalarThreshold \in 0 .. 100
  /\ NoCaller \notin Callers

Slots == 1 .. NumSlots

(* A parsed result: what the cascade looks at. *)
Results == [type : Types, conf : Levels]

ASSUME ResultAssumption ==
  /\ NoResult \notin Results
  /\ Passthrough \notin Results
  /\ NoResult # Passthrough

VARIABLES
  breaker,     \* per slot: its circuit breaker
  lastOpened,  \* per slot: last_opened is not None
  up,          \* per slot: the backend answers in time (environment)
  pool,        \* the thread pool
  loop,        \* the caller that holds the event loop
  pc,          \* per caller: idle, at the head of the slot loop, or waiting
  slot,        \* per caller: the slot it is at
  best,        \* per caller: best_cascade_result
  answer,      \* per caller: what its last call returned
  seen         \* history, per caller: results of this call the breakers let through

vars == <<breaker, lastOpened, up, pool, loop, pc, slot, best, answer, seen>>

TypeOK ==
  /\ breaker \in [Slots -> Breaker]
  /\ lastOpened \in [Slots -> BOOLEAN]
  /\ up \in [Slots -> BOOLEAN]
  /\ pool \in Pool
  /\ loop \in Callers \union {NoCaller}
  /\ pc \in [Callers -> {"idle", "slots", "waiting"}]
  /\ slot \in [Callers -> 1 .. NumSlots + 1]
  /\ best \in [Callers -> Results \union {NoResult}]
  /\ answer \in [Callers -> Results \union {NoResult, Passthrough}]
  /\ seen \in [Callers -> SUBSET Results]

(* The patterns are matched in the process itself: they cannot fail. *)
MayFail(s) == Kind[s] # "regex"

Init ==
  /\ breaker = [s \in Slots |-> Closed]
  /\ lastOpened = [s \in Slots |-> FALSE]
  /\ up \in {u \in [Slots -> BOOLEAN] : \A s \in Slots : ~MayFail(s) => u[s]}
  /\ pool = IdlePool
  /\ loop = NoCaller
  /\ pc = [c \in Callers |-> "idle"]
  /\ slot = [c \in Callers |-> 1]
  /\ best = [c \in Callers |-> NoResult]
  /\ answer = [c \in Callers |-> NoResult]
  /\ seen = [c \in Callers |-> {}]

-----------------------------------------------------------------------------
(* _threshold_for *)
ThresholdFor(r) ==
  IF r.type \in DOMAIN TypeThreshold THEN TypeThreshold[r.type]
  ELSE IF HasDefault THEN DefaultThreshold
  ELSE ScalarThreshold

Escalates(r) == ThresholdFor(r) > 0 /\ r.conf < ThresholdFor(r)

\* Fault: the last result is kept, not the best.
Better_Latest(r, b) == TRUE

Better(r, b) == b = NoResult \/ r.conf > b.conf

(* extract is called. *)
Call(c) ==
  /\ loop = NoCaller
  /\ pc[c] = "idle"
  /\ pc' = [pc EXCEPT ![c] = "slots"]
  /\ slot' = [slot EXCEPT ![c] = 1]
  /\ best' = [best EXCEPT ![c] = NoResult]
  /\ answer' = [answer EXCEPT ![c] = NoResult]
  /\ seen' = [seen EXCEPT ![c] = {}]
  /\ loop' = c
  /\ UNCHANGED <<breaker, lastOpened, up, pool>>

Return(c, r) ==
  /\ answer' = [answer EXCEPT ![c] = r]
  /\ pc' = [pc EXCEPT ![c] = "idle"]
  /\ slot' = [slot EXCEPT ![c] = 1]
  /\ best' = [best EXCEPT ![c] = NoResult]
  /\ loop' = NoCaller

(* continue: the next slot, in the same turn of the event loop. *)
NextSlot(c) ==
  /\ slot' = [slot EXCEPT ![c] = @ + 1]
  /\ pc' = [pc EXCEPT ![c] = "slots"]
  /\ loop' = c
  /\ UNCHANGED answer

(* The head of the slot loop.  An open breaker is skipped (_is_breaker_open)... *)
Skip(c) ==
  /\ loop = c
  /\ slot[c] \in Slots
  /\ Rejects(breaker[slot[c]])
  /\ NextSlot(c)
  /\ UNCHANGED <<breaker, lastOpened, up, pool, best, seen>>

(* ...and becomes half-open once its cooldown is over; then the backend is *)
(* called.                                                                 *)
Try(c) ==
  /\ loop = c
  /\ slot[c] \in Slots
  /\ ~Rejects(breaker[slot[c]])
  /\ breaker' = [breaker EXCEPT ![slot[c]] = IF @.state = "open" THEN HalfOpen ELSE @]
  /\ pc' = [pc EXCEPT ![c] = "waiting"]
  /\ loop' = NoCaller
  /\ pool' = Submitted(pool, c)
  /\ UNCHANGED <<lastOpened, up, slot, best, answer, seen>>

(* The slots are exhausted. *)
GiveUp(c) ==
  /\ loop = c
  /\ slot[c] > NumSlots
  /\ Return(c, IF best[c] = NoResult THEN Passthrough ELSE best[c])
  /\ UNCHANGED <<breaker, lastOpened, up, pool, seen>>

\* Fault: the moment the breaker opens is not noted.
Fail_WithoutNote(c) ==
  /\ breaker' = [breaker EXCEPT ![slot[c]] = AfterFailure(@)]
  /\ NextSlot(c)
  /\ UNCHANGED <<lastOpened, up, best>>

(* The handler: the failure is registered with the breaker. *)
Fail(c) ==
  LET b == AfterFailure(breaker[slot[c]])
  IN  /\ breaker' = [breaker EXCEPT ![slot[c]] = b]
      /\ lastOpened' = [lastOpened EXCEPT ![slot[c]] = @ \/ b.state = "open"]
      /\ NextSlot(c)
      /\ UNCHANGED <<up, best>>

(* The backend returns a result in time and the breaker accepts the success. *)
Succeed(c, r) ==
  /\ ~Rejects(breaker[slot[c]])
  /\ breaker' = [breaker EXCEPT ![slot[c]] = AfterSuccess(@)]
  /\ lastOpened' = [lastOpened EXCEPT ![slot[c]] = FALSE]
  /\ IF Escalates(r)
     THEN /\ NextSlot(c)
          /\ best' = [best EXCEPT ![c] = IF Better(r, @) THEN r ELSE @]
     ELSE Return(c, r)
  /\ seen' = [seen EXCEPT ![c] = @ \union {r}]
  /\ UNCHANGED up

(* The breaker was opened meanwhile, by another caller: its CircuitBreakerError *)
(* takes the result to the handler.                                             *)
Discard(c) ==
  /\ Rejects(breaker[slot[c]])
  /\ Fail(c)
  /\ UNCHANGED seen

(* A blocking client is called on a thread; the others in the event loop. *)
Blocking(s) == Kind[s] \in {"bedrock", "anthropic", "asksage"}

Queued(c) == Blocking(slot[c]) /\ c \notin pool.busy

Waits(c) == loop = NoCaller /\ pc[c] = "waiting"

Answered(c) ==
  /\ Waits(c)
  /\ up[slot[c]]
  /\ ~Queued(c)
  /\ pool' = Freed(pool, c)
  /\ Discard(c) \/ \E r \in Results : Succeed(c, r)

(* Ask Sage is queried again after any error, the others are not. *)
MayQueryAgain(c) == Kind[slot[c]] = "asksage" /\ pool.tries[c] < QueryRetries

QueryAgain(c) ==
  /\ Waits(c)
  /\ ~up[slot[c]]
  /\ ~Queued(c)
  /\ MayQueryAgain(c)
  /\ pool' = Requeued(pool, c)
  /\ UNCHANGED <<breaker, lastOpened, up, loop, pc, slot, best, answer, seen>>

(* The backend raises its RetryableError or PermanentError... *)
Raised(c) ==
  /\ ~up[slot[c]]
  /\ ~Queued(c)
  /\ ~MayQueryAgain(c)
  /\ pool' = Freed(pool, c)

\* Fault: the time in the queue does not count.
TimedOut_OnThread(c) ==
  /\ ~up[slot[c]]
  /\ ~Queued(c)
  /\ pool' = Abandoned(pool, c)

(* ...or a wait_for, its own hard timeout or the slot's, cancels the call: a  *)
(* call that hangs, or one that gets no thread although the backend is up.    *)
TimedOut(c) ==
  /\ up[slot[c]] => Queued(c) /\ Full(pool)
  /\ pool' = Abandoned(pool, c)

Errored(c) ==
  /\ Waits(c)
  /\ Raised(c) \/ TimedOut(c)
  /\ Fail(c)
  /\ UNCHANGED seen

-----------------------------------------------------------------------------
(* The environment: time passes, backends fail and recover. *)
Tick ==
  /\ loop = NoCaller
  /\ breaker' = [s \in Slots |-> Aged(breaker[s])]
  /\ UNCHANGED <<lastOpened, up, pool, loop, pc, slot, best, answer, seen>>

Toggle(s) ==
  /\ MayFail(s)
  /\ up' = [up EXCEPT ![s] = ~@]
  /\ UNCHANGED <<breaker, lastOpened, pool, loop, pc, slot, best, answer, seen>>

(* The pool: a thread takes a call from the queue, or ends one given up. *)
TakeUp(c) ==
  /\ pc[c] = "waiting"
  /\ Queued(c)
  /\ ~Full(pool)
  /\ pool' = Started(pool, c)
  /\ UNCHANGED <<breaker, lastOpened, up, loop, pc, slot, best, answer, seen>>

Unstick ==
  /\ pool.stuck > 0
  /\ pool' = [pool EXCEPT !.stuck = @ - 1]
  /\ UNCHANGED <<breaker, lastOpened, up, loop, pc, slot, best, answer, seen>>

Step(c) == Skip(c) \/ Try(c) \/ GiveUp(c) \/ Answered(c) \/ QueryAgain(c) \/ Errored(c)

Next ==
  \/ \E c \in Callers : Call(c) \/ Step(c)
  \/ \E c \in Callers : TakeUp(c)
  \/ Unstick
  \/ Tick
  \/ \E s \in Slots : Toggle(s)

Spec == Init /\ [][Next]_vars

(* wait_for bounds every wait, ready tasks run in FIFO order, and time passes: *)
(* a caller that keeps becoming ready gets the event loop.                     *)
(* A thread that is free takes what is queued; nothing is assumed of a call   *)
(* that was given up: no timeout is passed to the blocking clients.           *)
FairSpec ==
  /\ Spec
  /\ SF_vars(Tick)
  /\ \A c \in Callers : SF_vars(Step(c)) /\ SF_vars(TakeUp(c))

-----------------------------------------------------------------------------
(* PROPERTIES *)

(* The cascade keeps its word, whatever other callers do to the breakers in   *)
(* between: a call answers with a result that meets its threshold, or, once   *)
(* every slot was passed, with the best result any backend gave to it; the    *)
(* passthrough is used only when there was none (extract, lines 238-286).     *)
Answers(c) == pc[c] # "idle" /\ pc'[c] = "idle"

CascadeContract ==
  [][\A c \in Callers : Answers(c) =>
       /\ answer'[c] = Passthrough <=> seen'[c] = {}
       /\ answer'[c] # Passthrough =>
            /\ answer'[c] \in seen'[c]
            /\ Escalates(answer'[c]) =>
                 /\ slot[c] > NumSlots
                 /\ \A r \in seen'[c] : Escalates(r) /\ r.conf <= answer'[c].conf]_vars

(* The time-to-adapt clock runs exactly while a breaker is not closed, through *)
(* failed test calls too, so the next recovery reports the whole outage        *)
(* (slot.last_opened, lines 230-236 and 267-271).                              *)
AdaptClockTracksBreaker ==
  \A s \in Slots : lastOpened[s] <=> breaker[s].state # "closed"

(* A degraded system heals by itself: when a backend stays up and extract goes *)
(* on being called, its breaker closes and stays closed.  For the first slot,  *)
(* which no result of another backend can shadow, and once the calls given up  *)
(* have ended: until then their threads may be all there are, and calls of a   *)
(* backend that is up time out in the queue (extract, lines 213-286, and the   *)
(* wait_for in bedrock.py, lines 97-112).                                      *)
PrimaryRecovers ==
  /\ <>[](up[1] /\ pool.stuck = 0)
  /\ []<>(\E c \in Callers : pc[c] # "idle" /\ slot[c] = 1)
  => <>[](breaker[1] = Closed)

(* Pattern B: every call is answered, whatever the backends do. *)
CallsReturn == \A c \in Callers : pc[c] # "idle" ~> pc[c] = "idle"

=============================================================================
