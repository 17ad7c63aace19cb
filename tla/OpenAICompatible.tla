--------------------------- MODULE OpenAICompatible --------------------------
(***************************************************************************)
(* A call of OpenAICompatibleBackend.extract (backend/openai_compat.py).   *)
(* The client asks the model again when its answer does not fit the        *)
(* schema, as often as the call allows; the backend allows no retry while  *)
(* the model answers with text in place of JSON.                           *)
(***************************************************************************)
EXTENDS Naturals

CONSTANTS MaxRetries,    \* max_retries
          HardTimeout    \* whether hard_timeout is set

ASSUME BackendAssumption == MaxRetries \in Nat /\ HardTimeout \in BOOLEAN

\* How a call may end: with a result; with the error of its last attempt (text in
\* place of JSON, another misfit, a server that is busy, another refusal); late.
Endings == {"good", "text", "misfit", "busy", "refused", "late"}

\* _effective_retries, with so many structured-output failures in a row.
EffectiveRetries(failures) == IF failures > 0 THEN 0 ELSE MaxRetries

\* The client asks again: after an answer that does not fit.
AsksAgain(tries, budget) == tries <= budget

\* How a call may end after so many attempts.
EndsWith(ending, tries, budget) ==
    /\ ending \in {"text", "misfit"} => tries = budget + 1
    /\ ending = "late" => HardTimeout

\* Fault: a success does not bring the retries back.
FailuresAfterNoReset(failures, ending) == IF ending = "text" THEN failures + 1 ELSE failures

\* _structured_output_failures after the call.
FailuresAfter(failures, ending) ==
    IF ending = "good" THEN 0 ELSE IF ending = "text" THEN failures + 1 ELSE failures

\* What is raised: RetryableError, or PermanentError.
Raises(ending) == IF ending \in {"busy", "late"} THEN "retryable" ELSE "permanent"
==============================================================================
