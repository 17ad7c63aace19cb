--------------------------- MODULE UpdateLifecycle ---------------------------
(***************************************************************************)
(* What the writer promises about one CoPUpdate, whatever transport it     *)
(* uses: an update is taken once, waits while the kill switch is on,       *)
(* begins to be written only while it is off, and is settled once.  An     *)
(* update may be dropped only by the arrival of another one while the      *)
(* switch is on (the bounded backlog).                                     *)
(***************************************************************************)
CONSTANT Updates

VARIABLES
  halted,  \* the kill switch
  stage    \* where each update is

lifecycleVars == <<halted, stage>>

Stages == {"fresh", "waiting", "writing", "settled", "dropped"}

Init ==
  /\ halted = FALSE
  /\ stage = [u \in Updates |-> "fresh"]

Halt ==
  /\ halted' = TRUE
  /\ UNCHANGED stage

Release ==
  /\ halted' = FALSE
  /\ UNCHANGED stage

(* An update arrives: it is written now, or it joins the backlog, where it *)
(* may push out one that waits (or itself, when the backlog has no room).  *)
Take(u) ==
  /\ stage[u] = "fresh"
  /\ \/ /\ ~halted
        /\ stage' = [stage EXCEPT ![u] = "writing"]
     \/ /\ halted
        /\ stage' = [stage EXCEPT ![u] = "waiting"]
     \/ /\ halted
        /\ \E v \in Updates :
              /\ v = u \/ stage[v] = "waiting"
              /\ stage' = [stage EXCEPT ![u] = "waiting", ![v] = "dropped"]
  /\ UNCHANGED halted

(* The backlog is drained only while the switch is off. *)
Begin(u) ==
  /\ ~halted
  /\ stage[u] = "waiting"
  /\ stage' = [stage EXCEPT ![u] = "writing"]
  /\ UNCHANGED halted

Settle(u) ==
  /\ stage[u] = "writing"
  /\ stage' = [stage EXCEPT ![u] = "settled"]
  /\ UNCHANGED halted

Next ==
  \/ Halt
  \/ Release
  \/ \E u \in Updates : Take(u) \/ Begin(u) \/ Settle(u)

Spec == Init /\ [][Next]_lifecycleVars
==============================================================================
