----------------------------- MODULE MCCoPWriter -----------------------------
(***************************************************************************)
(* Instances of CoPWriter for TLC.  The first has one update of each tier, *)
(* one of them with a battle effect (two records), one with enough records *)
(* to overflow the review queue.  The smaller one, for the liveness        *)
(* properties, has the first two of them, where none is of a risky type.   *)
(***************************************************************************)
EXTENDS CoPWriter

CONSTANTS u1, u2, u3

MCUpdateTypes == {"position", "tasking", "weapons"}
MCTypeOf == [u \in Updates |-> CASE u = u1 -> "position" [] u = u2 -> "tasking" [] u = u3 -> "weapons"]
MCConfidence == [u \in Updates |-> CASE u = u1 -> 90 [] u = u2 -> 60 [] u = u3 -> 95]
MCEntityCount == [u \in Updates |-> IF u = u1 THEN 0 ELSE 1]
==============================================================================
