--------------------------- MODULE MCLabelWorkflow ----------------------------
(***************************************************************************)
(* An instance of LabelWorkflow for TLC: a line that occurs twice and one  *)
(* of noise, related types, two entities.                                  *)
(***************************************************************************)
EXTENDS LabelWorkflow

MCTypes == {"none", "sitrep", "status_change"}

Found(type, keys) == [type |-> type, keys |-> keys]

MCExtractions ==
  {Found("none", {}), Found("sitrep", {"k1"}), Found("status_change", {"k1", "k2"})}

MCCounts == {2, 3}

MCMessages ==
  <<[raw |-> "a", noise |-> FALSE], [raw |-> "n", noise |-> TRUE], [raw |-> "a", noise |-> FALSE]>>

MCTruth ==
  <<Found("status_change", {"k1", "k2"}), NoTruth, Found("sitrep", {"k1"})>>
===============================================================================
