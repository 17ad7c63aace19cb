------------------------ MODULE DegradingBackendProofs ------------------------
(***************************************************************************)
(* Theorems about DegradingBackend, for any number of callers and slots,   *)
(* any thresholds, failure limit and cooldown.                             *)
(***************************************************************************)
EXTENDS DegradingBackend, TLAPS

(* What the steps rely on beyond the types: a caller that waits does so at a *)
(* slot, never past the last one, and the caller that holds the event loop   *)
(* is at the head of the slot loop.                                          *)
PlaceInLoop ==
  \A c \in Callers :
    /\ pc[c] = "waiting" => slot[c] \in Slots
    /\ loop = c => pc[c] = "slots"

IInv == TypeOK /\ PlaceInLoop

(* The breaker operations stay within the breaker's type. *)
LEMMA BreakerClosed ==
  ASSUME NEW b \in Breaker
  PROVE  /\ Closed \in Breaker
         /\ HalfOpen \in Breaker
         /\ AfterSuccess(b) \in Breaker
         /\ AfterFailure(b) \in Breaker
         /\ Aged(b) \in Breaker
<1>1. FailMax \in Nat /\ FailMax >= 1 /\ Cooldown \in Nat
  BY BreakerAssumption
<1>2. Closed \in Breaker /\ HalfOpen \in Breaker /\ Opened \in Breaker
  BY <1>1 DEF Closed, HalfOpen, Opened, Breaker
<1>3. AfterSuccess(b) \in Breaker
  BY <1>2 DEF AfterSuccess
<1>4. AfterFailure(b) \in Breaker
  <2>1. CASE b.state = "closed" /\ b.fails + 1 < FailMax
    BY <2>1, <1>1, <1>2 DEF AfterFailure, Breaker
  <2>2. CASE ~(b.state = "closed" /\ b.fails + 1 < FailMax)
    BY <2>2, <1>2 DEF AfterFailure
  <2> QED
    BY <2>1, <2>2
<1>5. Aged(b) \in Breaker
  BY <1>1 DEF Aged, Breaker
<1> QED
  BY <1>2, <1>3, <1>4, <1>5

(* So do the operations of the pool. *)
LEMMA PoolClosed ==
  ASSUME NEW p \in Pool, NEW c \in Callers
  PROVE  /\ Submitted(p, c) \in Pool
         /\ Started(p, c) \in Pool
         /\ Freed(p, c) \in Pool
         /\ Requeued(p, c) \in Pool
         /\ Abandoned(p, c) \in Pool
<1>1. Submitted(p, c) \in Pool /\ Started(p, c) \in Pool /\ Freed(p, c) \in Pool
  BY DEF Pool, Submitted, Started, Freed
<1>2. Requeued(p, c) \in Pool
  BY <1>1 DEF Pool, Requeued
<1>3. Abandoned(p, c) \in Pool
  <2>1. (p.busy \ {c}) \in SUBSET Callers
    BY DEF Pool
  <2>2. (IF c \in p.busy THEN p.stuck + 1 ELSE p.stuck) \in Nat
    BY DEF Pool
  <2> QED
    BY <2>1, <2>2 DEF Pool, Abandoned
<1> QED
  BY <1>1, <1>2, <1>3

LEMMA IdlePoolType == IdlePool \in Pool
  BY DEF IdlePool, Pool

(* What one action makes of a caller's place in the slot loop. *)
LEMMA NextSlotTypes ==
  ASSUME TypeOK, NEW c \in Callers, slot[c] \in Slots, NextSlot(c)
  PROVE  /\ loop' \in Callers \union {NoCaller}
         /\ pc' \in [Callers -> {"idle", "slots", "waiting"}]
         /\ slot' \in [Callers -> 1 .. NumSlots + 1]
         /\ answer' \in [Callers -> Results \union {NoResult, Passthrough}]
         /\ \A d \in Callers :
              /\ pc'[d] = "waiting" => pc[d] = "waiting" /\ slot'[d] = slot[d]
              /\ loop' = d => pc'[d] = "slots"
  BY BackendAssumption DEF TypeOK, NextSlot, Slots

LEMMA ReturnTypes ==
  ASSUME TypeOK, NEW c \in Callers, NEW r \in Results \union {Passthrough}, Return(c, r)
  PROVE  /\ loop' \in Callers \union {NoCaller}
         /\ pc' \in [Callers -> {"idle", "slots", "waiting"}]
         /\ slot' \in [Callers -> 1 .. NumSlots + 1]
         /\ best' \in [Callers -> Results \union {NoResult}]
         /\ answer' \in [Callers -> Results \union {NoResult, Passthrough}]
         /\ \A d \in Callers :
              /\ pc'[d] = "waiting" => pc[d] = "waiting" /\ slot'[d] = slot[d]
              /\ loop' = d => pc'[d] = "slots"
  BY BackendAssumption DEF TypeOK, Return

LEMMA FailTypes ==
  ASSUME IInv, NEW c \in Callers, slot[c] \in Slots, Fail(c), UNCHANGED seen, pool' \in Pool
  PROVE  IInv'
<1>1. breaker[slot[c]] \in Breaker
  BY DEF IInv, TypeOK
<1>2. breaker' \in [Slots -> Breaker] /\ lastOpened' \in [Slots -> BOOLEAN]
  BY <1>1, BreakerClosed DEF IInv, TypeOK, Fail
<1>3. NextSlot(c) /\ UNCHANGED <<up, best>>
  BY DEF Fail
<1> QED
  BY <1>2, <1>3, NextSlotTypes DEF IInv, TypeOK, PlaceInLoop

LEMMA SucceedTypes ==
  ASSUME IInv, NEW c \in Callers, slot[c] \in Slots, NEW r \in Results, Succeed(c, r),
         pool' \in Pool
  PROVE  IInv'
<1>1. breaker[slot[c]] \in Breaker
  BY DEF IInv, TypeOK
<1>2. breaker' \in [Slots -> Breaker] /\ lastOpened' \in [Slots -> BOOLEAN]
  BY <1>1, BreakerClosed DEF IInv, TypeOK, Succeed
<1>3. up' \in [Slots -> BOOLEAN] /\ seen' \in [Callers -> SUBSET Results]
  BY DEF IInv, TypeOK, Succeed
<1>4. CASE Escalates(r)
  <2>1. NextSlot(c) /\ best' \in [Callers -> Results \union {NoResult}]
    BY <1>4 DEF IInv, TypeOK, Succeed
  <2> QED
    BY <1>2, <1>3, <2>1, NextSlotTypes DEF IInv, TypeOK, PlaceInLoop
<1>5. CASE ~Escalates(r)
  <2>1. Return(c, r)
    BY <1>5 DEF Succeed
  <2> QED
    BY <1>2, <1>3, <2>1, ReturnTypes DEF IInv, TypeOK, PlaceInLoop
<1> QED
  BY <1>4, <1>5

LEMMA InitIInv == Init => IInv
<1> SUFFICES ASSUME Init PROVE IInv
  OBVIOUS
<1>1. Closed \in Breaker
  BY BreakerAssumption DEF Closed, Breaker
<1> QED
  BY <1>1, IdlePoolType, BackendAssumption DEF Init, IInv, TypeOK, PlaceInLoop, Slots

LEMMA StepIInv == IInv /\ [Next]_vars => IInv'
<1> SUFFICES ASSUME IInv, [Next]_vars PROVE IInv'
  OBVIOUS
<1>1. ASSUME NEW c \in Callers, Call(c) PROVE IInv'
  BY <1>1, BackendAssumption DEF Call, IInv, TypeOK, PlaceInLoop, Slots
<1>2. ASSUME NEW c \in Callers, Skip(c) PROVE IInv'
  <2>1. slot[c] \in Slots /\ NextSlot(c)
    BY <1>2 DEF Skip
  <2> QED
    BY <1>2, <2>1, NextSlotTypes DEF Skip, IInv, TypeOK, PlaceInLoop
<1>3. ASSUME NEW c \in Callers, Try(c) PROVE IInv'
  <2>1. breaker' \in [Slots -> Breaker] /\ pool' \in Pool
    BY <1>3, BreakerClosed, PoolClosed DEF Try, IInv, TypeOK
  <2> QED
    BY <1>3, <2>1, BackendAssumption DEF Try, IInv, TypeOK, PlaceInLoop
<1>4. ASSUME NEW c \in Callers, GiveUp(c) PROVE IInv'
  <2>1. PICK r \in Results \union {Passthrough} : Return(c, r)
    BY <1>4 DEF GiveUp, IInv, TypeOK
  <2> QED
    BY <1>4, <2>1, ReturnTypes DEF GiveUp, IInv, TypeOK, PlaceInLoop
<1>5. ASSUME NEW c \in Callers, Answered(c) PROVE IInv'
  <2>1. slot[c] \in Slots /\ pool' \in Pool
    BY <1>5, PoolClosed DEF Answered, Waits, IInv, TypeOK, PlaceInLoop
  <2>2. CASE Discard(c)
    BY <2>1, <2>2, FailTypes DEF Discard
  <2>3. ASSUME NEW r \in Results, Succeed(c, r) PROVE IInv'
    BY <2>1, <2>3, SucceedTypes
  <2> QED
    BY <1>5, <2>2, <2>3 DEF Answered
<1>6. ASSUME NEW c \in Callers, Errored(c) PROVE IInv'
  <2>1. slot[c] \in Slots
    BY <1>6 DEF Errored, Waits, IInv, PlaceInLoop
  <2>2. pool' \in Pool
    BY <1>6, PoolClosed DEF Errored, Raised, TimedOut, IInv, TypeOK
  <2> QED
    BY <1>6, <2>1, <2>2, FailTypes DEF Errored
<1>7. CASE Tick
  <2>1. breaker' \in [Slots -> Breaker]
    BY <1>7, BreakerClosed DEF Tick, IInv, TypeOK
  <2> QED
    BY <1>7, <2>1 DEF Tick, IInv, TypeOK, PlaceInLoop
<1>8. ASSUME NEW s \in Slots, Toggle(s) PROVE IInv'
  BY <1>8 DEF Toggle, IInv, TypeOK, PlaceInLoop
<1>9. ASSUME NEW c \in Callers, QueryAgain(c) \/ TakeUp(c) PROVE IInv'
  <2>1. pool' \in Pool
    BY <1>9, PoolClosed DEF QueryAgain, TakeUp, IInv, TypeOK
  <2> QED
    BY <1>9, <2>1 DEF QueryAgain, TakeUp, IInv, TypeOK, PlaceInLoop
<1>10. CASE Unstick
  <2>1. pool' \in Pool
    BY <1>10 DEF Unstick, Pool, IInv, TypeOK
  <2> QED
    BY <1>10, <2>1 DEF Unstick, IInv, TypeOK, PlaceInLoop
<1>11. CASE UNCHANGED vars
  BY <1>11 DEF vars, IInv, TypeOK, PlaceInLoop
<1> QED
  BY <1>1, <1>2, <1>3, <1>4, <1>5, <1>6, <1>7, <1>8, <1>9, <1>10, <1>11 DEF Next, Step

LEMMA SpecIInv == Spec => []IInv
  BY InitIInv, StepIInv, PTL DEF Spec

(* In every run the variables keep their types: the slot index stays within *)
(* the list and the failure counter of a breaker within its limit, whatever *)
(* the callers do to the breakers between each other's suspensions          *)
(* (extract, the slot loop).                                                *)
THEOREM TypeCorrect == Spec => []TypeOK
<1>1. IInv => TypeOK
  BY DEF IInv
<1> QED
  BY <1>1, SpecIInv, PTL

-----------------------------------------------------------------------------
(* The time-to-adapt clock. *)

LEMMA FailKeepsClock ==
  ASSUME IInv, AdaptClockTracksBreaker, NEW c \in Callers, slot[c] \in Slots, Fail(c)
  PROVE  AdaptClockTracksBreaker'
<1> DEFINE b == breaker[slot[c]]
<1>1. b \in Breaker
  BY DEF IInv, TypeOK
<1>2. AfterFailure(b).state = "closed" => b.state = "closed"
  BY <1>1 DEF AfterFailure, Opened, Rejects
<1>3. b.state # "closed" => AfterFailure(b).state # "closed"
  BY <1>2
<1>4. AfterFailure(b).state # "closed" =>
        AfterFailure(b).state = "open" \/ b.state # "closed"
  BY <1>1 DEF AfterFailure, Opened, Rejects, Breaker
<1>5. /\ breaker' = [breaker EXCEPT ![slot[c]] = AfterFailure(b)]
      /\ lastOpened' = [lastOpened EXCEPT
                          ![slot[c]] = @ \/ AfterFailure(b).state = "open"]
  BY DEF Fail
<1> QED
  BY <1>3, <1>4, <1>5 DEF AdaptClockTracksBreaker, IInv, TypeOK

LEMMA SucceedKeepsClock ==
  ASSUME IInv, AdaptClockTracksBreaker, NEW c \in Callers, slot[c] \in Slots,
         NEW r \in Results, Succeed(c, r)
  PROVE  AdaptClockTracksBreaker'
  BY DEF Succeed, AfterSuccess, Closed, AdaptClockTracksBreaker, IInv, TypeOK

LEMMA StepKeepsClock ==
  IInv /\ AdaptClockTracksBreaker /\ [Next]_vars => AdaptClockTracksBreaker'
<1> SUFFICES ASSUME IInv, AdaptClockTracksBreaker, [Next]_vars
             PROVE  AdaptClockTracksBreaker'
  OBVIOUS
<1>1. ASSUME NEW c \in Callers, Call(c) \/ Skip(c) \/ GiveUp(c)
      PROVE  AdaptClockTracksBreaker'
  BY <1>1 DEF Call, Skip, GiveUp, AdaptClockTracksBreaker
<1>2. ASSUME NEW c \in Callers, Try(c) PROVE AdaptClockTracksBreaker'
  BY <1>2 DEF Try, HalfOpen, AdaptClockTracksBreaker, IInv, TypeOK
<1>3. ASSUME NEW c \in Callers, Answered(c) PROVE AdaptClockTracksBreaker'
  <2>1. slot[c] \in Slots
    BY <1>3 DEF Answered, Waits, IInv, PlaceInLoop
  <2> QED
    BY <1>3, <2>1, FailKeepsClock, SucceedKeepsClock DEF Answered, Discard
<1>4. ASSUME NEW c \in Callers, Errored(c) PROVE AdaptClockTracksBreaker'
  <2>1. slot[c] \in Slots
    BY <1>4 DEF Errored, Waits, IInv, PlaceInLoop
  <2> QED
    BY <1>4, <2>1, FailKeepsClock DEF Errored
<1>5. CASE Tick
  <2>1. \A s \in Slots : Aged(breaker[s]).state = breaker[s].state
    BY DEF Aged, IInv, TypeOK, Breaker
  <2> QED
    BY <1>5, <2>1 DEF Tick, AdaptClockTracksBreaker
<1>6. ASSUME NEW s \in Slots, Toggle(s) PROVE AdaptClockTracksBreaker'
  BY <1>6 DEF Toggle, AdaptClockTracksBreaker
<1>8. CASE Unstick \/ \E c \in Callers : QueryAgain(c) \/ TakeUp(c)
  BY <1>8 DEF Unstick, QueryAgain, TakeUp, AdaptClockTracksBreaker
<1>7. CASE UNCHANGED vars
  BY <1>7 DEF vars, AdaptClockTracksBreaker
<1> QED
  BY <1>1, <1>2, <1>3, <1>4, <1>5, <1>6, <1>7, <1>8 DEF Next, Step

(* However many callers share a breaker, its time-to-adapt clock runs exactly *)
(* while it is not closed: no failed test call restarts it and no success     *)
(* leaves it running (extract, lines 230-236 and 260-271).                    *)
THEOREM ClockCorrect == Spec => []AdaptClockTracksBreaker
<1>1. Init => AdaptClockTracksBreaker
  BY DEF Init, Closed, AdaptClockTracksBreaker
<1> QED
  BY <1>1, SpecIInv, StepKeepsClock, PTL DEF Spec

-----------------------------------------------------------------------------
(* The contract of the cascade. *)

(* While a call is under way its best result is the best of those it has seen, *)
(* all of which fell short of their thresholds.                                *)
BestSoFar ==
  \A c \in Callers : pc[c] # "idle" =>
    /\ best[c] = NoResult <=> seen[c] = {}
    /\ best[c] # NoResult => best[c] \in seen[c]
    /\ \A r \in seen[c] : Escalates(r) /\ r.conf <= best[c].conf

(* The cascade step that keeps a better result. *)
LEMMA BetterIsBest ==
  ASSUME TypeOK, BestSoFar, NEW c \in Callers, pc[c] # "idle",
         NEW r \in Results, Escalates(r),
         NEW b, b = IF Better(r, best[c]) THEN r ELSE best[c],
         NEW S, S = seen[c] \union {r}
  PROVE  /\ b # NoResult /\ b \in S /\ S # {}
         /\ \A q \in S : Escalates(q) /\ q.conf <= b.conf
<1>1. r # NoResult
  BY ResultAssumption
<1>2. \A q \in Results : q.conf \in Nat
  <2>1. \A q \in Results : q.conf \in Levels
    BY DEF Results
  <2>2. Levels \subseteq Nat
    BY BackendAssumption
  <2> QED
    BY <2>1, <2>2
<1>3. seen[c] \subseteq Results /\ (best[c] # NoResult => best[c] \in Results)
  BY DEF TypeOK
<1>4. CASE best[c] = NoResult
  BY <1>1, <1>2, <1>4 DEF BestSoFar, Better
<1>5. CASE best[c] # NoResult /\ r.conf > best[c].conf
  <2>1. b = r
    BY <1>5 DEF Better
  <2>2. \A q \in seen[c] : Escalates(q) /\ q.conf <= best[c].conf
    BY <1>5 DEF BestSoFar
  <2>3. \A q \in seen[c] : q.conf <= r.conf
    BY <2>2, <1>2, <1>3, <1>5
  <2> QED
    BY <2>1, <2>2, <2>3, <1>1, <1>2
<1>6. CASE best[c] # NoResult /\ ~(r.conf > best[c].conf)
  BY <1>1, <1>2, <1>3, <1>6 DEF BestSoFar, Better
<1> QED
  BY <1>4, <1>5, <1>6

LEMMA InitBest == Init => BestSoFar
  BY DEF Init, BestSoFar

LEMMA StepBest == IInv /\ BestSoFar /\ [Next]_vars => BestSoFar'
<1> SUFFICES ASSUME IInv, BestSoFar, [Next]_vars PROVE BestSoFar'
  OBVIOUS
<1>1. ASSUME NEW c \in Callers, Call(c) PROVE BestSoFar'
  BY <1>1 DEF Call, BestSoFar, IInv, TypeOK
<1>2. ASSUME NEW c \in Callers, Skip(c) PROVE BestSoFar'
  BY <1>2 DEF Skip, NextSlot, BestSoFar, IInv, TypeOK, PlaceInLoop
<1>3. ASSUME NEW c \in Callers, Try(c) PROVE BestSoFar'
  BY <1>3 DEF Try, BestSoFar, IInv, TypeOK, PlaceInLoop
<1>4. ASSUME NEW c \in Callers, GiveUp(c) PROVE BestSoFar'
  BY <1>4 DEF GiveUp, Return, BestSoFar, IInv, TypeOK
<1>5. ASSUME NEW c \in Callers, Answered(c) PROVE BestSoFar'
  <2>1. CASE Discard(c)
    BY <1>5, <2>1 DEF Answered, Waits, Discard, Fail, NextSlot, BestSoFar, IInv, TypeOK
  <2>2. ASSUME NEW r \in Results, Succeed(c, r), Escalates(r) PROVE BestSoFar'
    <3>1. /\ best'[c] = IF Better(r, best[c]) THEN r ELSE best[c]
          /\ seen'[c] = seen[c] \union {r}
          /\ pc[c] # "idle"
      BY <1>5, <2>2 DEF Answered, Waits, Succeed, IInv, TypeOK
    <3>2. \A d \in Callers : d # c =>
            best'[d] = best[d] /\ seen'[d] = seen[d] /\ pc'[d] = pc[d]
      BY <2>2 DEF Succeed, NextSlot, IInv, TypeOK
    <3>3. /\ best'[c] # NoResult /\ best'[c] \in seen'[c] /\ seen'[c] # {}
          /\ \A q \in seen'[c] : Escalates(q) /\ q.conf <= best'[c].conf
      BY <2>2, <3>1, BetterIsBest DEF IInv
    <3> QED
      BY <3>2, <3>3 DEF BestSoFar
  <2>3. ASSUME NEW r \in Results, Succeed(c, r), ~Escalates(r) PROVE BestSoFar'
    BY <2>3 DEF Succeed, Return, BestSoFar, IInv, TypeOK
  <2> QED
    BY <1>5, <2>1, <2>2, <2>3 DEF Answered
<1>6. ASSUME NEW c \in Callers, Errored(c) PROVE BestSoFar'
  BY <1>6 DEF Errored, Waits, Fail, NextSlot, BestSoFar, IInv, TypeOK
<1>7. CASE \/ Tick \/ Unstick \/ \E s \in Slots : Toggle(s)
           \/ \E c \in Callers : QueryAgain(c) \/ TakeUp(c)
  BY <1>7 DEF Tick, Unstick, Toggle, QueryAgain, TakeUp, BestSoFar
<1>8. CASE UNCHANGED vars
  BY <1>8 DEF vars, BestSoFar
<1> QED
  BY <1>1, <1>2, <1>3, <1>4, <1>5, <1>6, <1>7, <1>8 DEF Next, Step

(* Whatever the other callers do to the breakers, a call answers with a result *)
(* that meets its threshold, or at the end of the list with the best result it *)
(* got, and falls through to the passthrough only when it got none.            *)
THEOREM CascadeCorrect == Spec => CascadeContract
<1> DEFINE Contract(c) ==
      Answers(c) =>
        /\ answer'[c] = Passthrough <=> seen'[c] = {}
        /\ answer'[c] # Passthrough =>
             /\ answer'[c] \in seen'[c]
             /\ Escalates(answer'[c]) =>
                  /\ slot[c] > NumSlots
                  /\ \A r \in seen'[c] : Escalates(r) /\ r.conf <= answer'[c].conf
<1>1. ASSUME IInv, BestSoFar, [Next]_vars, NEW c \in Callers PROVE Contract(c)
  <2> USE DEF Answers
  <2>1. ASSUME NEW d \in Callers, Call(d) \/ Skip(d) \/ Try(d) \/ Errored(d)
        PROVE  Contract(c)
    BY <1>1, <2>1 DEF Call, Skip, Try, Errored, Fail, NextSlot, IInv, TypeOK
  <2>2. ASSUME NEW d \in Callers, GiveUp(d) PROVE Contract(c)
    <3>1. CASE c # d
      BY <1>1, <2>2, <3>1 DEF GiveUp, Return, IInv, TypeOK
    <3>2. CASE c = d
      <4>1. /\ pc[c] # "idle" /\ slot[c] > NumSlots /\ seen' = seen
            /\ answer'[c] = IF best[c] = NoResult THEN Passthrough ELSE best[c]
        BY <1>1, <2>2, <3>2 DEF GiveUp, Return, IInv, TypeOK, PlaceInLoop
      <4>2. best[c] # NoResult => best[c] # Passthrough
        BY <1>1, ResultAssumption DEF IInv, TypeOK
      <4> QED
        BY <1>1, <4>1, <4>2 DEF BestSoFar
    <3> QED
      BY <3>1, <3>2
  <2>3. ASSUME NEW d \in Callers, Answered(d) PROVE Contract(c)
    <3>1. CASE Discard(d)
      BY <1>1, <3>1 DEF Discard, Fail, NextSlot, IInv, TypeOK
    <3>2. ASSUME NEW r \in Results, Succeed(d, r) PROVE Contract(c)
      <4>1. CASE Escalates(r)
        BY <1>1, <3>2, <4>1 DEF Succeed, NextSlot, IInv, TypeOK
      <4>2. CASE ~Escalates(r)
        <5>1. CASE c # d
          BY <1>1, <3>2, <4>2, <5>1 DEF Succeed, Return, IInv, TypeOK
        <5>2. CASE c = d
          <6>1. answer'[c] = r /\ r \in seen'[c]
            BY <1>1, <3>2, <4>2, <5>2 DEF Succeed, Return, IInv, TypeOK
          <6> QED
            BY <6>1, <4>2, ResultAssumption
        <5> QED
          BY <5>1, <5>2
      <4> QED
        BY <4>1, <4>2
    <3> QED
      BY <2>3, <3>1, <3>2 DEF Answered
  <2>4. CASE \/ Tick \/ Unstick \/ (\E s \in Slots : Toggle(s)) \/ UNCHANGED vars
             \/ \E d \in Callers : QueryAgain(d) \/ TakeUp(d)
    BY <2>4 DEF Tick, Unstick, Toggle, QueryAgain, TakeUp, vars
  <2> QED
    BY <1>1, <2>1, <2>2, <2>3, <2>4 DEF Next, Step
<1>2. IInv /\ BestSoFar /\ [Next]_vars => [\A c \in Callers : Contract(c)]_vars
  BY <1>1
<1>3. Spec => []BestSoFar
  BY SpecIInv, InitBest, StepBest, PTL DEF Spec
<1>4. Spec => [][\A c \in Callers : Contract(c)]_vars
  BY <1>2, <1>3, SpecIInv, PTL DEF Spec
<1> QED
  BY <1>4 DEF CascadeContract
=============================================================================
