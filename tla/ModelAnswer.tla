----------------------------- MODULE ModelAnswer -----------------------------
(***************************************************************************)
(* What becomes of the fields a model fills in before an update is made of *)
(* them (the validators of models/cop_update.py).  A field is [is, of]: a  *)
(* number in hundredths, a word, or anything else; a word that reads as a  *)
(* number, with or without a percent sign, is a number.  What is computed  *)
(* is rounded down to a hundredth.                                         *)
(***************************************************************************)
EXTENDS Integers, FiniteSetsExt

CONSTANT UpdateTypes     \* values of UpdateType

ASSUME AnswerAssumption == "none" \in UpdateTypes

\* _coerce_update_type: what is no type is read as "none".
CoerceUpdateType(v) == IF v.is = "word" /\ v.of \in UpdateTypes THEN v.of ELSE "none"

\* _WORD_TO_CONFIDENCE.
Certainty ==
    [high |-> 90, very_high |-> 95, medium |-> 70, moderate |-> 70, low |-> 30,
     very_low |-> 10, none |-> 0, unknown |-> 50]

\* A number above 1 is a percentage.
FromNumber(n) == IF n > 100 THEN Min({n \div 100, 100}) ELSE Max({0, n})

\* _coerce_confidence.
CoerceConfidence(v) ==
    CASE v.is = "number" -> FromNumber(v.of)
      [] v.is = "word" /\ v.of \in DOMAIN Certainty -> Certainty[v.of]
      [] OTHER -> 0

\* The update made of an answer that has both fields; without one of them it does
\* not fit the schema.
Coerced(answer) ==
    [type |-> CoerceUpdateType(answer.type), conf |-> CoerceConfidence(answer.confidence)]
==============================================================================
