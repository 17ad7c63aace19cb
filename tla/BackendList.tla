------------------------------ MODULE BackendList -----------------------------
(***************************************************************************)
(* How run_replay builds the degrading backend from its configuration      *)
(* (_make_degrading_backend in replay.py, load_cascade_thresholds in       *)
(* backend/degrading.py).                                                  *)
(***************************************************************************)
EXTENDS Naturals, Sequences, Functions, SequencesExt

(* A configuration: which primary is asked for, the models' names, and the    *)
(* thresholds file: its values, the keys that are notes (they begin with an   *)
(* underscore), and those whose value is not a number.                        *)
PrimaryKind(config) ==
  IF config.asksage THEN "asksage"
  ELSE IF config.bedrock THEN "bedrock"
  ELSE IF config.anthropic THEN "anthropic"
  ELSE "openai"

(* The slots: a fallback only when it is another model, then the patterns. *)
SlotKinds(config) ==
  <<PrimaryKind(config)>>
    \o (IF config.fallbackModel # config.model THEN <<"openai">> ELSE <<>>)
    \o <<"regex">>

(* The thresholds: a missing file, or cascade_thresholds_enabled off, leaves   *)
(* none.                                                                      *)
ThresholdKeys(file) == DOMAIN file.values \ (file.notes \union file.texts)

CascadeThresholds(config) ==
  IF config.enabled /\ config.file.exists
  THEN Restrict(config.file.values, ThresholdKeys(config.file))
  ELSE <<>>
==============================================================================
