---------------------------- MODULE RegexBackend -----------------------------
(***************************************************************************)
(* The last backend of the cascade (backend/regex_fallback.py).  A text is *)
(* the set of extractors that match it, each once, and so are the entities *)
(* found in it.  Patterns that match across two lines of a prompt are left *)
(* out.  Confidences in percent.                                           *)
(***************************************************************************)
EXTENDS Integers, SequencesExt, FiniteSets

\* The extractors in the order extract runs them, and the type each stands for.
Extractors == <<"tracks", "fuel", "weapons", "status", "csar", "crash", "brevity",
                "down", "threat", "coordinates">>
TypeFor(x) ==
    CASE x = "tracks" -> "entity_id" [] x = "fuel"        -> "fuel"
      [] x = "csar"   -> "csar"      [] x = "weapons"     -> "weapons"
      [] x = "threat" -> "threat"    [] x = "coordinates" -> "location"
      [] x \in {"status", "crash", "brevity", "down"} -> "status_change"

\* What one of them finds in a text: the lines that match.
Found(x, lines, says) == {n \in Range(lines) : x \in says[n]}

\* extract, for a text of several lines (messages).  The noise rules match only
\* the beginning of the text, and a prompt begins with a heading: they never do.
RegexExtract(lines, says) ==
    LET matching == {k \in DOMAIN Extractors : Found(Extractors[k], lines, says) # {}}
        score    == 10 + 8 * Cardinality(matching)
    IN  [type     |-> IF matching = {} THEN "none" ELSE TypeFor(Extractors[Min(matching)]),
         conf     |-> IF score < 45 THEN score ELSE 45,
         entities |-> UNION {{[found |-> x, message |-> n] : n \in Found(x, lines, says)} :
                                x \in Range(Extractors)}]
==============================================================================
