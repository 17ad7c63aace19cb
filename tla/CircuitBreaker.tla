---------------------------- MODULE CircuitBreaker ----------------------------
(***************************************************************************)
(* The pybreaker circuit breaker, a library, as backend/degrading.py uses  *)
(* it: every call hands it a function that only succeeds or only fails, so *)
(* a call is a function of the breaker.  Time is counted in ticks since    *)
(* the breaker opened, up to the cooldown.                                 *)
(***************************************************************************)
EXTENDS Naturals

CONSTANTS
  FailMax,   \* fail_max: consecutive failures that open a breaker
  Cooldown   \* reset_timeout, in ticks

ASSUME BreakerAssumption ==
  /\ FailMax \in Nat \ {0}
  /\ Cooldown \in Nat

Breaker == [state : {"closed", "open", "half_open"},
            fails : 0 .. FailMax,
            age   : 0 .. Cooldown]

Closed == [state |-> "closed", fails |-> 0, age |-> 0]
HalfOpen == [state |-> "half_open", fails |-> FailMax, age |-> 0]
Opened == [state |-> "open", fails |-> FailMax, age |-> 0]

\* Fault: an open breaker never lets a call through again.
Rejects_ForEver(b) == b.state = "open"

(* call raises CircuitBreakerError without running the function. *)
Rejects(b) == b.state = "open" /\ b.age < Cooldown

(* call of a function that succeeds; past the cooldown an open breaker first *)
(* becomes half-open, and one success closes that.                           *)
AfterSuccess(b) == IF Rejects(b) THEN b ELSE Closed

(* call of a function that fails. *)
AfterFailure(b) ==
  IF Rejects(b) THEN b
  ELSE IF b.state = "closed" /\ b.fails + 1 < FailMax THEN [b EXCEPT !.fails = @ + 1]
  ELSE Opened

(* One tick. *)
Aged(b) ==
  IF b.state = "open" /\ b.age < Cooldown THEN [b EXCEPT !.age = @ + 1] ELSE b
==============================================================================
