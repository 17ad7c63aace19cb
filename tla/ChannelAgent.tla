---------------------------- MODULE ChannelAgent -----------------------------
(***************************************************************************)
(* The agent of one channel (agent/channel_agent.py), its backend (a model *)
(* behind an OpenAI-compatible server, and the regular expressions as the  *)
(* fallback), its speaker profiles and its calibration.  The pipeline      *)
(* waits for each message's answer before it reads the next one; the       *)
(* supervisor may replace the agent at any time, also during a call, which *)
(* then goes on with the agent it started with.                            *)
(***************************************************************************)
EXTENDS SpeakerModel, OpenAICompatible, RegexBackend, Calibration, ModelAnswer

CONSTANTS
    Senders,
    Chats,           \* what the channel may bring: sequences of messages
    Answers,         \* what the model may extract: a type and a confidence, as written
    Inferences,      \* what it may infer of a speaker
    Trainings,       \* labelled samples a calibration may be fitted to
    Deployed,        \* bound: those whose calibration the pipeline loads
    Configs,         \* use_speaker_models
    WindowSize,      \* window_size
    WindowSpan,      \* window_minutes
    ContextLength,   \* messages kept as provenance (5)
    Types,           \* of updates
    Thresholds,      \* cascade_thresholds, of each type
    MaxAgents,       \* bound: agents that serve the channel one after the other
    Uncalibrated     \* no calibration is loaded

Messages == [sender : Senders, ts : Nat, noise : BOOLEAN, says : SUBSET Range(Extractors)]

ASSUME AgentAssumption ==
    /\ Chats \subseteq Seq(Messages)
    /\ \A x \in Range(Extractors) : TypeFor(x) \in Types
    /\ \A a \in Answers : Coerced(a).type \in Types /\ Coerced(a).conf \in Confidences
    /\ {WindowSize, ContextLength, MaxAgents} \subseteq Nat \ {0} /\ WindowSpan \in Nat
    /\ Configs \subseteq BOOLEAN /\ Thresholds \in [Types -> Confidences] /\ Scale = 100

VARIABLES
    chat,       \* what the channel brings
    training,   \* the calibration's method and samples
    useSpeakerModels,
    model,      \* calibration_model
    agents,     \* the agents of the channel; the last one is in the pool
    served,     \* history: the agent that got each message so far
    pc,
    budget,     \* effective_retries of the call to the model in progress
    tries,      \* its attempts so far
    prompt,     \* llm_messages
    answer,     \* what process_message returned last: an update or Nothing
    reports,    \* messages whose update may still get feedback of the fusion
    outcomes    \* history: per agent, the answers of the model that count

call    == <<pc, budget, tries, prompt>>
learned == <<agents, outcomes>>
config  == <<chat, training, useSpeakerModels>>
vars    == <<config, model, agents, served, call, answer, reports, outcomes>>

\* The message in progress, or the last one; its agent.
Now  == Len(served)
Hand == served[Now]

\* A profile is known for the speakers that the agent has heard.
NewAgent == [window |-> <<>>, count |-> 0, failures |-> 0, speakers |-> <<>>]

Init ==
    /\ chat = <<>> /\ useSpeakerModels = FALSE
    /\ training \in Trainings \cup {Uncalibrated}
    /\ model = Uncalibrated /\ agents = <<NewAgent>> /\ served = <<>>
    /\ pc = "starting" /\ budget = 0 /\ tries = 0 /\ prompt = Nothing
    /\ answer = Nothing /\ reports = {} /\ outcomes = <<<<>>>>

Trained == Fitted(training.method, training.samples)

\* The start of the pipeline: CalibrationModel.from_file, AgentConfig().
Load ==
    /\ pc = "starting" /\ training \in Deployed \cup {Uncalibrated}
    /\ model' = IF training = Uncalibrated THEN Uncalibrated ELSE Trained
    /\ chat' \in Chats /\ useSpeakerModels' \in Configs
    /\ pc' = "idle"
    /\ UNCHANGED <<training, learned, served, budget, tries, prompt, answer, reports>>

-----------------------------------------------------------------------------
\* process_message.

Ts(n) == chat[n].ts

\* Fault: the window is trimmed before the message is in it.
TrimmedFirst(window, n) ==
    LET old == {k \in DOMAIN window : Ts(window[k]) >= Ts(Last(window)) - WindowSpan}
    IN  LastOf(Append(SelectSeq(window, LAMBDA m : \E k \in old : window[k] = m), n),
               WindowSize)

\* _trim_window_by_time: old messages leave at the front, up to the first that is
\* not too old, measured from the message that came last.
Trimmed(window, n) ==
    LET all   == LastOf(Append(window, n), WindowSize)
        fresh == {k \in DOMAIN all : Ts(all[k]) >= Ts(n) - WindowSpan}
    IN  SubSeq(all, CHOOSE k \in fresh : \A j \in fresh : k <= j, Len(all))

\* _build_messages: the window, the message itself last, and the known speakers.
PromptOf(a) ==
    [lines |-> a.window,
     speakers |-> [s \in DOMAIN a.speakers |-> Introduced(a.speakers[s])]]

\* A call of the model begins.
Asks(a, place) ==
    /\ pc' = place /\ budget' = EffectiveRetries(a.failures) /\ tries' = 1

Idles(a) == pc' = "idle" /\ budget' = 0 /\ tries' = 0 /\ prompt' = Nothing

\* The message joins the window of a; noise ends here, the rest is extracted.
Admitted(a, i, n) ==
    LET b == [a EXCEPT !.window = Trimmed(@, n)]
    IN  /\ agents' = [agents EXCEPT ![i] = b]
        /\ IF chat[n].noise THEN Idles(b)
           ELSE prompt' = PromptOf(b) /\ Asks(b, "extracting")

\* The speaker's profile hears the message first.
Hearing(a, n) ==
    LET s    == chat[n].sender
        old  == IF s \in DOMAIN a.speakers THEN a.speakers[s] ELSE NewProfile(Ts(n))
        with == [t \in DOMAIN a.speakers \cup {s} |->
                    IF t = s THEN Heard(old, n, Ts(n)) ELSE a.speakers[t]]
    IN  [a EXCEPT !.count = @ + 1, !.speakers = IF useSpeakerModels THEN with ELSE @]

Receive ==
    /\ pc = "idle" /\ Now < Len(chat)
    /\ served' = Append(served, Len(agents)) /\ answer' = Nothing
    /\ LET n == Now + 1
           i == Len(agents)
           a == Hearing(agents[i], n)
       IN  IF useSpeakerModels /\ InferenceDue(a.speakers[chat[n].sender])
           THEN /\ agents' = [agents EXCEPT ![i] = a]
                /\ Asks(a, "inferring") /\ UNCHANGED prompt
           ELSE Admitted(a, i, n)
    /\ UNCHANGED <<config, model, reports, outcomes>>

\* The model's answer does not fit the schema, and the client asks again.
AskAgain ==
    /\ pc \in {"inferring", "extracting"} /\ AsksAgain(tries, budget)
    /\ tries' = tries + 1
    /\ UNCHANGED <<config, model, learned, served, pc, budget, prompt, answer, reports>>

\* The agent in hand after a call of its model; the history of such calls.
Called(ending) ==
    [agents[Hand] EXCEPT !.failures = FailuresAfter(@, ending)]
Noted(ending) ==
    outcomes' = IF ending \in {"good", "text"}
                THEN [outcomes EXCEPT ![Hand] = Append(@, ending)] ELSE outcomes

\* _infer_speaker: the fallback gives no SpeakerInference, so without the model
\* nothing is learned.
Infer(ending) ==
    /\ pc = "inferring" /\ EndsWith(ending, tries, budget)
    /\ LET s == chat[Now].sender
       IN  IF ending = "good"
           THEN \E r \in Inferences :
                   Admitted([Called(ending) EXCEPT !.speakers[s] = Learned(@, r)], Hand, Now)
           ELSE Admitted(Called(ending), Hand, Now)
    /\ Noted(ending)
    /\ UNCHANGED <<config, model, served, answer, reports>>

Calibrated(c) == IF model = Uncalibrated THEN Ratio(c, Scale) ELSE Calibrate(model, c)

\* The fields the agent sets, whatever the backend filled in; a result of type
\* "none" is dropped.
Return(r) ==
    /\ answer' = IF r.type = "none" THEN Nothing
                 ELSE [message |-> Now, type |-> r.type, conf |-> Calibrated(r.conf),
                       entities |-> r.entities,
                       context |-> LastOf(agents[Hand].window, ContextLength)]
    /\ reports' = IF r.type = "none" THEN reports ELSE reports \cup {Now}
    /\ Idles(agents[Hand])

\* What the model extracts is of the message it is asked about.
OfModel(r) == [type |-> r.type, conf |-> r.conf,
               entities |-> {[found |-> "model", message |-> Now]}]
OfRegex    == RegexExtract(prompt.lines, [n \in DOMAIN chat |-> chat[n].says])

\* The cascade: a result below its threshold gives way to one that meets its own,
\* or that is more confident.
Accepted(r) == r.conf >= Thresholds[r.type]
Cascade(r) ==
    IF ~Accepted(r) /\ (Accepted(OfRegex) \/ OfRegex.conf > r.conf) THEN OfRegex
    ELSE OfModel(r)

Extract(ending) ==
    /\ pc = "extracting" /\ EndsWith(ending, tries, budget)
    /\ agents' = [agents EXCEPT ![Hand] = Called(ending)]
    /\ IF ending = "good" THEN \E a \in Answers : Return(Cascade(Coerced(a))) ELSE Return(OfRegex)
    /\ Noted(ending)
    /\ UNCHANGED <<config, model, served>>

\* The model's circuit breaker is open: only the fallback is asked.
SkipModel ==
    /\ pc \in {"inferring", "extracting"} /\ tries = 1
    /\ IF pc = "inferring"
       THEN Admitted(agents[Hand], Hand, Now) /\ UNCHANGED <<answer, reports>>
       ELSE Return(OfRegex) /\ UNCHANGED agents
    /\ UNCHANGED <<config, model, served, outcomes>>

-----------------------------------------------------------------------------
\* restart_agent: a new agent, and a new backend.
Restart ==
    /\ pc # "starting" /\ Len(agents) < MaxAgents
    /\ agents' = Append(agents, NewAgent) /\ outcomes' = Append(outcomes, <<>>)
    /\ UNCHANGED <<config, model, served, call, answer, reports>>

\* receive_fusion_feedback, about the speaker of an earlier update; a speaker the
\* agent in the pool does not know is left out.
Feedback(n, type) ==
    /\ pc = "idle" /\ n \in reports
    /\ reports' = reports \ {n}
    /\ agents' = [agents EXCEPT ![Len(agents)].speakers =
                     [s \in DOMAIN @ |-> IF s = chat[n].sender THEN Reviewed(@[s], type) ELSE @[s]]]
    /\ UNCHANGED <<config, model, served, call, answer, outcomes>>

Next ==
    \/ Load \/ Receive \/ AskAgain \/ SkipModel \/ Restart
    \/ \E ending \in Endings : Infer(ending) \/ Extract(ending)
    \/ \E n \in reports, type \in {"corroborated", "contradicted", "deduplicated"} :
           Feedback(n, type)

Spec == Init /\ [][Next]_vars

-----------------------------------------------------------------------------
(***************************************************************************)
(* PROPERTIES                                                              *)
(***************************************************************************)

Fraction(f) == f.den > 0 /\ Leq(Ratio(0, 1), f) /\ Leq(f, One)

\* The variables have their types; a score and the confidence of an update stay
\* within 0 and 1, whatever the calibration makes of it.
TypeOK ==
    /\ pc \in {"starting", "idle", "inferring", "extracting"}
    /\ Len(agents) \in 1 .. MaxAgents /\ Len(outcomes) = Len(agents)
    /\ served \in Seq(1 .. Len(agents)) /\ Now <= Len(chat)
    /\ \A i \in DOMAIN agents :
          /\ agents[i].count \in Nat /\ agents[i].failures \in Nat
          /\ DOMAIN agents[i].speakers \subseteq Senders
          /\ \A s \in DOMAIN agents[i].speakers : agents[i].speakers[s].score \in 0 .. 1000
    /\ answer # Nothing => answer.message = Now /\ Fraction(answer.conf)

\* The messages that have joined the window of the i-th agent.
Joined(i) == {n \in DOMAIN served : served[n] = i /\ ~(n = Now /\ pc = "inferring")}
InOrder(ns) == \A j, k \in ns : j < k => Ts(j) <= Ts(k)

\* s holds the latest of these messages, in the order they came and without a gap.
Latest(s, ns) ==
    /\ \A j, k \in DOMAIN s : j < k => s[j] < s[k]
    /\ Range(s) \subseteq ns /\ (ns # {} => s # <<>>)
    /\ \A gone \in ns \ Range(s), k \in DOMAIN s : gone < s[k]

\* A window holds the latest messages of its agent, no more than it may and, counted
\* from the last, none at its front that is too old; when they came in order of time
\* it leaves out none that it could hold.
WindowIsRecent(i) ==
    LET window == agents[i].window
    IN  /\ Latest(window, Joined(i)) /\ Len(window) <= WindowSize
        /\ window # <<>> => Ts(Head(window)) >= Ts(Last(window)) - WindowSpan
        /\ InOrder(Joined(i)) /\ Len(window) < WindowSize
             => \A gone \in Joined(i) \ Range(window) : Ts(gone) < Ts(Last(window)) - WindowSpan

\* What the model is shown, and what an update gives as its origin, is the recent
\* conversation of its own channel: the prompt ends with the message in progress,
\* as does the provenance, and no entity comes from a message that was not shown;
\* so across late messages, inference, restarts during a call, and the fallback.
ContextIsHonest ==
    /\ \A i \in DOMAIN agents : WindowIsRecent(i)
    /\ pc = "extracting" => Last(prompt.lines) = Now /\ prompt.lines = agents[Hand].window
    /\ answer # Nothing =>
          /\ Last(answer.context) = answer.message /\ Latest(answer.context, Joined(Hand))
          /\ \A e \in answer.entities : e.message \in Range(agents[Hand].window)

\* A profile tells of its speaker's messages to this agent, all of them; activities
\* are counted at most once for each inference that was due; and a score is moved
\* away from the middle only by feedback of that kind, about an update each.
ProfileIsEarned(i, s) ==
    LET p     == agents[i].speakers[s]
        heard == {n \in DOMAIN served : served[n] = i /\ chat[n].sender = s}
        due   == IF p.count < FirstInferenceAt THEN 0
                 ELSE 1 + (p.count - FirstInferenceAt) \div InferenceInterval
    IN  IF s \notin DOMAIN agents[i].speakers THEN ~useSpeakerModels \/ heard = {}
        ELSE /\ p.count = Cardinality(heard) /\ Latest(p.recent, heard)
             /\ Len(p.recent) = IF p.count < MaxRecent THEN p.count ELSE MaxRecent
             /\ \E n \in heard : (\A m \in heard : n <= m) /\ p.first = Ts(n)
             /\ p.last = Ts(Last(p.recent))
             /\ Classified(p) <= due
             /\ (p.score > 500 => p.corroborated > 0) /\ (p.score < 500 => p.contradicted > 0)
             /\ p.corroborated + p.contradicted <=
                  Cardinality({n \in DOMAIN served : chat[n].sender = s})

\* The model is asked once as long as it answers with text, and gets its retries
\* back with the first result that fits.
RetriesFollowOutcomes ==
    \A i \in DOMAIN agents :
        LET textLast == outcomes[i] # <<>> /\ Last(outcomes[i]) = "text"
        IN  /\ agents[i].failures > 0 <=> textLast
            /\ pc \in {"inferring", "extracting"} /\ i = Hand
                 => tries <= 1 + (IF textLast THEN 0 ELSE MaxRetries)

\* What the agent has learned follows from what happened: its speaker profiles and
\* the retries of its backend.
LearningFollowsEvidence ==
    /\ \A i \in DOMAIN agents : \A s \in Senders : ProfileIsEarned(i, s)
    /\ RetriesFollowOutcomes

\* A calibration gives confidences; the isotonic one never turns two of them round,
\* and passes through the least-squares fit when no two samples have the same
\* confidence.
CalibrationIsFair ==
    pc = "starting" /\ training # Uncalibrated =>
      LET trained == Trained
      IN  /\ \A c \in Confidences : Fraction(Calibrate(trained, c))
          /\ training.method = "isotonic" =>
                /\ \A c \in Confidences \ {Scale} :
                      Leq(Calibrate(trained, c), Calibrate(trained, c + 1))
                /\ PointsFit(trained, training.samples)

==============================================================================
