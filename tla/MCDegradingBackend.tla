-------------------------- MODULE MCDegradingBackend --------------------------
(***************************************************************************)
(* An instance of DegradingBackend for TLC: two callers, the slots that    *)
(* run_replay builds for Ask Sage with another model behind it, without    *)
(* the patterns that it puts last and that always answer, one type with a  *)
(* demanding threshold of its own and one under the default.               *)
(***************************************************************************)
EXTENDS DegradingBackend, BackendList, TLC

MCTypes == {"csar", "logistics"}
MCLevels == {40, 70}

MCFile ==
  [exists |-> TRUE, notes |-> {"_description"}, texts |-> {"logistics"},
   values |-> [key \in {"csar", "default", "logistics", "_description"} |->
                 IF key = "csar" THEN 80 ELSE 50]]

MCConfig ==
  [asksage |-> TRUE, bedrock |-> FALSE, anthropic |-> FALSE,
   model |-> "claude", fallbackModel |-> "qwen", enabled |-> TRUE, file |-> MCFile]

MCKind == Front(SlotKinds(MCConfig))
MCNumSlots == Len(MCKind)
MCThresholds == CascadeThresholds(MCConfig)
MCTypeThreshold == Restrict(MCThresholds, MCTypes \intersect DOMAIN MCThresholds)
MCHasDefault == "default" \in DOMAIN MCThresholds
MCDefault == IF MCHasDefault THEN MCThresholds["default"] ELSE 0
==============================================================================
