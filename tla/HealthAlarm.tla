----------------------------- MODULE HealthAlarm -----------------------------
(***************************************************************************)
(* The silent-failure alarm (class HealthAlarm in agent/supervisor.py): a  *)
(* rolling window of extraction outcomes and the status computed from it.  *)
(* Time is counted in ticks; a record carries its age.  The code prunes    *)
(* when it records and when it computes, so pruning as time passes gives   *)
(* the same status.                                                        *)
(***************************************************************************)
EXTENDS Integers, Sequences, FiniteSets

CONSTANTS
  WindowTicks,           \* _window_seconds
  IdleTicks,             \* _idle_timeout
  PassthroughThreshold,  \* _passthrough_threshold, in percent
  ConfOf                 \* confidence of an outcome of each kind, in percent

\* An update the agent is sure of, one it is not, and the records without one.
Extractions == {"sure", "unsure"}
Silent == {"passthrough", "error", "shed"}
Kinds == Extractions \union Silent

ASSUME AlarmAssumption ==
  /\ WindowTicks \in Nat
  /\ IdleTicks \in Nat
  /\ PassthroughThreshold \in 0 .. 100
  /\ ConfOf \in [Kinds -> 0 .. 100]

VARIABLES
  window,  \* _records: a sequence of [kind, age], the oldest first
  quiet    \* ticks since _last_record_time; NeverRecorded before the first

NeverRecorded == -1

alarmVars == <<window, quiet>>

AlarmTypeOK ==
  /\ window \in Seq([kind : Kinds, age : 0 .. WindowTicks])
  /\ quiet \in -1 .. IdleTicks + 1

AlarmInit ==
  /\ window = <<>>
  /\ quiet = NeverRecorded

(* record *)
AlarmRecord(kind) ==
  /\ window' = Append(window, [kind |-> kind, age |-> 0])
  /\ quiet' = 0

(* _prune takes records from the front and stops at the first in the window. *)
Expired(w) == {i \in DOMAIN w : \A j \in 1 .. i : w[j].age = WindowTicks}

(* One tick: what leaves the window is pruned, the rest grows older. *)
Aged(w) ==
  LET kept == SubSeq(w, Cardinality(Expired(w)) + 1, Len(w))
  IN  [i \in DOMAIN kept |-> [kept[i] EXCEPT !.age = @ + 1]]

(* The quiet time is counted to just past its limit. *)
AlarmTick ==
  /\ window' = Aged(window)
  /\ quiet' = IF quiet \in {NeverRecorded, IdleTicks + 1} THEN quiet ELSE quiet + 1

-----------------------------------------------------------------------------
CountOf(w, kinds) == Cardinality({i \in DOMAIN w : w[i].kind \in kinds})

(* _classify, on n outcomes of which p are silent, with this sum of confidences *)
Classify(n, p, sum) ==
  IF 100 * p > PassthroughThreshold * n \/ sum < 30 * n THEN "CRITICAL"
  ELSE IF 10 * p >= 3 * n \/ sum < 50 * n THEN "DEGRADED"
  ELSE "HEALTHY"

(* compute, of a window w and a quiet time q *)
StatusOf(w, q) ==
  IF w = <<>> THEN IF q > IdleTicks THEN "CRITICAL" ELSE "HEALTHY"
  ELSE Classify(Len(w), CountOf(w, Silent),
                ConfOf["sure"] * CountOf(w, {"sure"})
                  + ConfOf["unsure"] * CountOf(w, {"unsure"}))

Status == StatusOf(window, quiet)
==============================================================================
