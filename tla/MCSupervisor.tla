----------------------------- MODULE MCSupervisor -----------------------------
(***************************************************************************)
(* Instances of Supervisor for TLC: one channel of each priority.          *)
(***************************************************************************)
EXTENDS Supervisor, TLC

CONSTANTS high, medium, low

MCChannels == {high, medium, low}
MCPriority == high :> "HIGH" @@ medium :> "MEDIUM" @@ low :> "LOW"
MCConfOf == [k \in Kinds |-> IF k = "sure" THEN 90 ELSE IF k = "unsure" THEN 40 ELSE 0]
==============================================================================
