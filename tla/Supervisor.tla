------------------------------ MODULE Supervisor ------------------------------
(***************************************************************************)
(* The supervisor (agent/supervisor.py) with the channel agents it routes  *)
(* messages to (process_message in agent/channel_agent.py).  A call of     *)
(* route_message suspends only while it waits for a backend: in speaker    *)
(* inference and in extraction.  The health check, stop_agent and every    *)
(* stretch between two waits run in one turn of the event loop.            *)
(***************************************************************************)
EXTENDS HealthAlarm

CONSTANTS
  Channels,
  Callers,         \* tasks that call route_message
  Priority,        \* CHANNEL_PRIORITIES, with MEDIUM for an unlisted channel
  ErrorThreshold,  \* error_rate_threshold, in percent
  MaxRestarts,     \* max_restart_attempts
  MaxMessages,     \* bound: calls of route_message
  MaxStops,        \* bound: calls of stop_agent
  NoChannel

Priorities == {"HIGH", "MEDIUM", "LOW"}

ASSUME SupervisorAssumption ==
  /\ Priority \in [Channels -> Priorities]
  /\ ErrorThreshold \in 0 .. 100
  /\ {MaxRestarts, MaxMessages, MaxStops} \subseteq Nat
  /\ NoChannel \notin Channels

VARIABLES
  agents,    \* channels with an agent (_agents)
  active,    \* per channel: is_active of its AgentHealth
  shed,      \* _shed_channels
  restarts,  \* _restart_counts
  received,  \* metrics: agent_messages_received_total
  failed,    \* metrics: agent_extraction_errors_total
  slow,      \* metrics: the maximal extraction latency exceeds latency_threshold
  pc,        \* per caller: where its coroutine is
  chan,      \* per caller: the channel of its message
  answer,    \* per caller: what its last call returned
  pulled,    \* history, per caller: its agent was stopped during the call
  routed,    \* how often route_message was called
  stops,     \* how often stop_agent was called
  outcomes   \* history: the window as it would be if every outcome were recorded

poolVars == <<agents, active, shed, restarts>>
metricVars == <<received, failed, slow>>
callVars == <<pc, chan, answer, pulled>>
vars == <<alarmVars, poolVars, metricVars, callVars, routed, stops, outcomes>>

Answers == Kinds \union {"nothing"}

TypeOK ==
  /\ AlarmTypeOK
  /\ agents \subseteq Channels
  /\ active \in [Channels -> BOOLEAN]
  /\ shed \subseteq Channels
  /\ restarts \in [Channels -> 0 .. MaxRestarts]
  /\ received \in [Channels -> Nat]
  /\ failed \in [Channels -> Nat]
  /\ slow \in [Channels -> BOOLEAN]
  /\ pc \in [Callers -> {"idle", "inferring", "extracting"}]
  /\ chan \in [Callers -> Channels \union {NoChannel}]
  /\ answer \in [Callers -> Answers]
  /\ pulled \in [Callers -> BOOLEAN]
  /\ routed \in 0 .. MaxMessages
  /\ stops \in 0 .. MaxStops
  /\ outcomes \in Seq([kind : Kinds, age : 0 .. WindowTicks])

Init ==
  /\ AlarmInit
  /\ agents = {}
  /\ active = [ch \in Channels |-> FALSE]
  /\ shed = {}
  /\ restarts = [ch \in Channels |-> 0]
  /\ received = [ch \in Channels |-> 0]
  /\ failed = [ch \in Channels |-> 0]
  /\ slow = [ch \in Channels |-> FALSE]
  /\ pc = [c \in Callers |-> "idle"]
  /\ chan = [c \in Callers |-> NoChannel]
  /\ answer = [c \in Callers |-> "nothing"]
  /\ pulled = [c \in Callers |-> FALSE]
  /\ routed = 0
  /\ stops = 0
  /\ outcomes = <<>>

-----------------------------------------------------------------------------
(* An outcome joins the window the alarm would need. *)
Note(kind) == outcomes' = Append(outcomes, [kind |-> kind, age |-> 0])

(* route_message returns a: an update, or an outcome that is no update. *)
Answer(c, a) ==
  /\ pc' = [pc EXCEPT ![c] = "idle"]
  /\ chan' = [chan EXCEPT ![c] = NoChannel]
  /\ answer' = [answer EXCEPT ![c] = a]
  /\ pulled' = [pulled EXCEPT ![c] = FALSE]
  /\ IF a \in Kinds THEN AlarmRecord(a) ELSE UNCHANGED alarmVars

(* process_message returns; without an agent for the channel, reading its     *)
(* message_count raises KeyError, and the updates give way to an error.       *)
Return(c, r) == Answer(c, IF chan[c] \in agents THEN r ELSE "error")

(* start_agent, when the channel has no agent; a restart count it has stays. *)
EnsureAgent(ch) ==
  /\ agents' = agents \union {ch}
  /\ active' = IF ch \in agents THEN active ELSE [active EXCEPT ![ch] = TRUE]
  /\ UNCHANGED <<shed, restarts>>

(* A shed channel is answered without its agent. *)
TurnAway(c, ch) ==
  /\ ch \in shed
  /\ Answer(c, "shed")
  /\ Note("shed")
  /\ UNCHANGED metricVars

(* process_message up to its first wait, or to the noise filter's return. *)
Deliver(c, ch) ==
  /\ ch \notin shed
  /\ received' = [received EXCEPT ![ch] = @ + 1]
  /\ \/ \E p \in {"inferring", "extracting"} :
          /\ pc' = [pc EXCEPT ![c] = p]
          /\ chan' = [chan EXCEPT ![c] = ch]
          /\ answer' = [answer EXCEPT ![c] = "nothing"]
          /\ UNCHANGED <<alarmVars, pulled>>
     \/ Answer(c, "nothing")
  /\ UNCHANGED <<failed, slow, outcomes>>

(* route_message *)
Route(c, ch) ==
  /\ pc[c] = "idle"
  /\ routed < MaxMessages
  /\ routed' = routed + 1
  /\ EnsureAgent(ch)
  /\ TurnAway(c, ch) \/ Deliver(c, ch)
  /\ UNCHANGED stops

(* Speaker inference ends, one way or the other: noise is filtered now. *)
Inferred(c) ==
  /\ pc[c] = "inferring"
  /\ \/ /\ pc' = [pc EXCEPT ![c] = "extracting"]
        /\ UNCHANGED <<alarmVars, chan, answer, pulled>>
     \/ Return(c, "nothing")
  /\ UNCHANGED <<poolVars, metricVars, routed, stops, outcomes>>

(* The agent drops a result of type NONE; a passthrough is one. *)
Emitted(r) == IF r \in Extractions THEN r ELSE "nothing"

(* The backend gives a result of type NONE ("nothing"), its passthrough or an *)
(* update, perhaps late.                                                      *)
Extracted(c) ==
  /\ pc[c] = "extracting"
  /\ \E r \in Extractions \union {"passthrough", "nothing"}, late \in BOOLEAN :
       /\ slow' = [slow EXCEPT ![chan[c]] = @ \/ late]
       /\ IF r = "nothing" THEN UNCHANGED outcomes ELSE Note(r)
       /\ Return(c, Emitted(r))
  /\ UNCHANGED <<poolVars, received, failed, routed, stops>>

(* The backend raises: an error is counted and the timer records nothing. *)
Raised(c) ==
  /\ pc[c] = "extracting"
  /\ failed' = [failed EXCEPT ![chan[c]] = @ + 1]
  /\ Note("error")
  /\ Return(c, "error")
  /\ UNCHANGED <<poolVars, received, slow, routed, stops>>

-----------------------------------------------------------------------------
\* Fault: the stopped channel stays among the shed ones.
StopAgent_StaysShed(ch) ==
  /\ ch \in agents
  /\ stops < MaxStops
  /\ stops' = stops + 1
  /\ agents' = agents \ {ch}
  /\ pulled' = [c \in Callers |-> pulled[c] \/ (pc[c] # "idle" /\ chan[c] = ch)]
  /\ UNCHANGED <<alarmVars, active, shed, restarts, metricVars,
                 pc, chan, answer, routed, outcomes>>

(* stop_agent *)
StopAgent(ch) ==
  /\ ch \in agents
  /\ stops < MaxStops
  /\ stops' = stops + 1
  /\ agents' = agents \ {ch}
  /\ shed' = shed \ {ch}
  /\ pulled' = [c \in Callers |-> pulled[c] \/ (pc[c] # "idle" /\ chan[c] = ch)]
  /\ UNCHANGED <<alarmVars, active, restarts, metricVars,
                 pc, chan, answer, routed, outcomes>>

(* _get_agent_error_rate and _is_system_overloaded, with the channels in S shed *)
Failing(ch) == 100 * failed[ch] > ErrorThreshold * received[ch]

Overloaded(S) ==
  LET up == agents \ S
  IN  2 * Cardinality({ch \in up : slow[ch] \/ Failing(ch)}) > Cardinality(up)

Of(S, p) == {ch \in S : Priority[ch] = p}

\* Fault: one restart too many.
Restarted_OffByOne == {ch \in agents : Failing(ch) /\ restarts[ch] <= MaxRestarts}

(* _evaluate_restarts: the agents it replaces. *)
Restarted == {ch \in agents : Failing(ch) /\ restarts[ch] < MaxRestarts}

(* _evaluate_load_shedding when overloaded: LOW, and MEDIUM if that is not enough... *)
ShedMore(S) ==
  LET tier1 == S \union Of(agents, "LOW")
  IN  IF Overloaded(tier1) THEN tier1 \union Of(agents, "MEDIUM") ELSE tier1

\* Fault: the lowest tier is restored first.
Restore_LowFirst(S) ==
  S \ Of(S, IF Of(S, "LOW") # {} THEN "LOW"
            ELSE IF Of(S, "MEDIUM") # {} THEN "MEDIUM" ELSE "HIGH")

\* Fault: the loop over the tiers ends with its first turn.
Restore_FirstTurn(S) == S \ Of(S, "HIGH")

(* ...and when it is not, the highest tier that has a shed channel is restored. *)
Restore(S) ==
  S \ Of(S, IF Of(S, "HIGH") # {} THEN "HIGH"
            ELSE IF Of(S, "MEDIUM") # {} THEN "MEDIUM" ELSE "LOW")

Shedding(S) == IF Overloaded(S) THEN ShedMore(S) ELSE Restore(S)

\* Fault: an agent is stopped, and started again only by its next message.
HealthCheck_StopsOnly ==
  /\ agents' = agents \ Restarted
  /\ restarts' = [ch \in Channels |-> IF ch \in Restarted THEN restarts[ch] + 1
                                      ELSE restarts[ch]]
  /\ shed' = shed \ Restarted
  /\ UNCHANGED <<alarmVars, active, metricVars, callVars, routed, stops, outcomes>>

(* health_check: restart_agent stops an agent, which un-sheds its channel, and *)
(* starts another in the same turn; then channels are shed or restored.        *)
HealthCheck ==
  LET S == shed \ Restarted
  IN  /\ restarts' = [ch \in Channels |-> IF ch \in Restarted THEN restarts[ch] + 1
                                          ELSE restarts[ch]]
      /\ shed' = Shedding(S)
      /\ active' = [ch \in Channels |->
                      IF ch \in shed' \ S THEN FALSE
                      ELSE IF ch \in Restarted \union (S \ shed') THEN TRUE
                      ELSE active[ch]]
      /\ UNCHANGED <<alarmVars, agents, metricVars, callVars, routed, stops, outcomes>>

-----------------------------------------------------------------------------
(* Time passes: for the alarm, and for the window it is compared with. *)
Tick ==
  /\ AlarmTick
  /\ outcomes' = Aged(outcomes)
  /\ UNCHANGED <<poolVars, metricVars, callVars, routed, stops>>

Step(c) == Inferred(c) \/ Extracted(c) \/ Raised(c)

Next ==
  \/ \E c \in Callers : Step(c) \/ \E ch \in Channels : Route(c, ch)
  \/ \E ch \in Channels : StopAgent(ch)
  \/ HealthCheck
  \/ Tick

Spec == Init /\ [][Next]_vars

(* run checks the health every health_check_interval; backends answer in time. *)
FairSpec == Spec /\ WF_vars(HealthCheck) /\ \A c \in Callers : WF_vars(Step(c))

-----------------------------------------------------------------------------
(* PROPERTIES *)

(* The pool is consistent, however restarts, stops, shedding and dynamic       *)
(* channel assignment follow each other: only channels with an agent are shed, *)
(* none of them HIGH, and is_active says of every agent whether it is.         *)
ShedIsConsistent ==
  /\ shed \subseteq agents
  /\ \A ch \in shed : Priority[ch] # "HIGH"
  /\ \A ch \in agents : active[ch] <=> ch \notin shed

(* Load is shed by priority: a health check leaves a MEDIUM channel shed only  *)
(* when every LOW one is (_evaluate_load_shedding, lines 413-440).  Between    *)
(* two checks a LOW channel may join or be restarted.                          *)
LowGoesFirst ==
  [][HealthCheck /\ Of(shed', "MEDIUM") # {} => Of(agents', "LOW") \subseteq shed']_vars

(* A restart in the middle of a call loses nothing: what the backend gives to  *)
(* the replaced agent is still answered, unless the agent was stopped for good *)
(* (route_message, lines 341-348, against restart_agent).                      *)
RestartsLoseNoUpdate ==
  [][\A c \in Callers, u \in Extractions :
       pc[c] = "extracting" /\ pc'[c] = "idle" /\ Note(u) /\ ~pulled[c]
         => answer'[c] = u]_vars

(* Nothing stays shed for good once the agents in charge are not overloaded.   *)
ShedIsReleased == <>[](~Overloaded(shed)) => <>[](shed = {})

(* CLAIMS OF COMMENTS AND DOCSTRINGS, which the code does not keep *)

(* "health monitor that detects silent pipeline failures" (HealthAlarm, line   *)
(* 56), "CRITICAL: passthrough_rate > threshold" (_classify, line 146).        *)
SilentFailureIsCritical ==
  100 * CountOf(outcomes, Silent) > PassthroughThreshold * Len(outcomes)
    => Status = "CRITICAL"

(* "System recovered - restore one priority tier per cycle" (line 429): once   *)
(* no agent is slow or fails any more, no channel stays shed.                  *)
Suffers == \E ch \in Channels : failed'[ch] > failed[ch] \/ (slow'[ch] /\ ~slow[ch])

RecoveryRestores == <>[][~Suffers]_vars => <>[](shed = {})
==============================================================================
