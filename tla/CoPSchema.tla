------------------------------ MODULE CoPSchema ------------------------------
(***************************************************************************)
(* The mapping of a CoPUpdate to CoPRecords and their write-authority tier *)
(* (output/cop_schema.py).  An update is an atom with a confidence, a type *)
(* and a number of entities; a record of it is its position in the list    *)
(* that cop_update_to_records returns.                                     *)
(***************************************************************************)
EXTENDS Naturals, Sequences

CONSTANTS
  Updates,            \* the CoPUpdates the pipeline may hand to the writer
  UpdateTypes,        \* UpdateType values
  Confidence,         \* confidence of an update, in percent
  TypeOf,             \* update_type of an update
  EntityCount,        \* how many entities an update carries
  AutoThreshold,      \* auto_threshold, in percent
  FlagThreshold,      \* flag_threshold, in percent
  HighRiskTypes,      \* high_risk_types
  BattleEffectTypes   \* _BATTLE_EFFECT_TYPES

ASSUME SchemaAssumption ==
  /\ Confidence \in [Updates -> 0 .. 100]
  /\ TypeOf \in [Updates -> UpdateTypes]
  /\ EntityCount \in [Updates -> Nat]
  /\ AutoThreshold \in 0 .. 100
  /\ FlagThreshold \in 0 .. 100
  /\ HighRiskTypes \subseteq UpdateTypes
  /\ BattleEffectTypes \subseteq UpdateTypes

Tiers == {"auto", "flagged", "human"}

\* Fault: a high confidence is let through before the type is looked at.
Tier_ConfidenceFirst(u) ==
  IF Confidence[u] >= AutoThreshold THEN "auto"
  ELSE IF Confidence[u] < FlagThreshold \/ TypeOf[u] \in HighRiskTypes THEN "human"
  ELSE "flagged"

(* classify_write_authority: the comparisons in the order the code makes them. *)
Tier(u) ==
  IF Confidence[u] < FlagThreshold \/ TypeOf[u] \in HighRiskTypes THEN "human"
  ELSE IF Confidence[u] < AutoThreshold THEN "flagged"
  ELSE "auto"

(* cop_update_to_records: one metadata record for an update without entities, *)
(* otherwise a track record for each entity, followed by a battle-effect      *)
(* record when the type has one.                                              *)
NumRecords(u) ==
  IF EntityCount[u] = 0 THEN 1
  ELSE IF TypeOf[u] \in BattleEffectTypes THEN 2 * EntityCount[u]
  ELSE EntityCount[u]

Records == UNION {{u} \X (1 .. NumRecords(u)) : u \in Updates}

(* What the tier rules promise, stated on the update rather than through Tier: *)
(* these updates are for an operator to decide on.                             *)
NeedsOperator(u) ==
  \/ Confidence[u] < FlagThreshold
  \/ TypeOf[u] \in HighRiskTypes
==============================================================================
