# chat-to-cop: a TLA+ verification project

chat-to-cop reads the chat of a military exercise, lets language models extract
structured updates (`CoPUpdate`) from it, fuses them, stores them, and writes
them to a Common Operating Picture (CoP) under tiered authority. This directory
models the program from its chat sources to the records it sends, and the tools
that label chat and measure the models: who may write to the CoP and when, how
the system degrades and recovers, how agents are shed and restarted, what the
agents know, how a batch of reports is fused and stored, and what crashes,
edits and lost connections leave behind.

Paths below are relative to the Python package `src/chat_to_cop/`, except
`scripts/`, `docs/` and `config/`, which are relative to the repository.

## 1. Inventory

Everything of the pipeline runs on one asyncio event loop. A coroutine gives way
to others only where it awaits something that is not ready (a network call, a
timer, the database, a thread of the pool). That is where steps interleave, and
nowhere else. The tools of `scripts/` are processes of their own that share
files.

| Component | State it keeps | Operations | What must hold |
|---|---|---|---|
| IRC client `ingestion/irc_client.py` | connection, channels, discovery task | `connect`, `disconnect`, `join`, `part`, `iter_messages` | the stream is whole; in all its channels after every reconnection; discovery respects `max_channels` and goes on |
| Recorded chat `ingestion/replay.py` | none | read a log, an archive, a directory | every line that parses is a message of its channel, in the order of the code |
| Multi-line reassembly `ingestion/multiline.py` | buffer of LINE messages, a fetch in progress | `add`, `flush`, `reassemble_multiline` | every line appears in exactly one output, in order |
| Supervisor, health alarm `agent/supervisor.py` | agents, shed set, restart counts, window of outcomes | `route_message`, `stop_agent`, `restart_agent`, `health_check`, `route_feedback` | pool, shed set and `is_active` agree; load is shed by priority; a restart loses no update; nothing stays shed without need |
| Channel agent `agent/channel_agent.py` | window, speaker models, prompt state | `process_message`, `receive_fusion_feedback` | what the model is shown and what an update gives as its origin is the recent conversation of its channel |
| Speaker models `models/speaker.py` | counters, activities, score, recent messages | `update_from_*`, the inference schedule | profiles tell of what happened, once |
| Degrading backend `backend/degrading.py` | a breaker and a time-to-adapt clock per backend | `extract` | every call is answered; the cascade returns what it promises; a recovered primary is used again |
| LLM backends `backend/*.py` | consecutive failures (OpenAI-compatible); the thread pool of the loop | `extract` | they answer, raise or are late; retries are bounded; a call given up keeps its thread |
| Regex backend `backend/regex_fallback.py` | none | `extract` | order of the extractors, type and confidence |
| Model answers `models/cop_update.py` | none | validators | what a model writes becomes a type and a confidence in 0..1 |
| Calibration `calibration.py` | fitted points | `fit`, `calibrate` | within 0..1; the isotonic one is monotone and the least-squares fit |
| Fusion agent `agent/fusion_agent.py` | channel and speaker statistics, last feedback | `process_updates`, `generate_feedback` | no report is lost or counted twice; confidences stay in range; contradictions are reviewed |
| Store `output/store.py` | SQLite tables | `write_update`, `write_audit`, corrections, overrides | entities follow the updates, also after a crash |
| CoP records `output/cop_schema.py` | none | tier classification, records of an update | the tier rules, in the code's order; the keys are those of the store |
| Schema adapters `output/schema_adapter.py`, `cli/adapt_schema.py` | schema and mapping files; the pair in force, mtime | `map` with hot reload; the tool that makes both files from a database | a bad pair never replaces a good one; a changed one is noticed, also one half-written |
| CoP writer `output/cop_writer.py`, admin API `api.py` | pause flag, pause queue, review queue, counters | `push_update`, `pause`, `resume`, `flush_pause_queue`, `pop_human_queue` | what an operator must decide on is never sent; a success reported is on the server; updates wait, are written and are settled once; losses only by overflow; a resumed backlog drains |
| CoP REST client `output/cop_rest_client.py` | HTTP client, request counters | `open`, `close`, `send_record` with retries | bounded retries; a record is repeated only by the retries of its one send |
| Pipeline loop `replay.py` | pending batch, totals | read, audit, route, fuse every fifth message, store, write | every message that enters leaves a trace |
| Labels and evaluation `labels.py`, `scripts/*label*`, `scripts/eval_models.py`, `scripts/recalibrate.py` | label files, a job's progress, tallies | label, merge, load, compare, validate, evaluate, recalibrate | a killed job resumes where it was; human labels win; marks are earned |
| Metrics, trackers, dashboard, CLI, reference data, test generator | counters | reporting | |

How they interact: the pipeline awaits `Supervisor.route_message` for each
message, which awaits the channel's agent, which awaits its backend. Every fifth
message the batch goes through the fusion agent; fused updates go to the store
and then to `CoPWriter.push_update`, one after the other, where each record is
mapped by the schema adapter and sent by the REST client. Operators reach the
writer through admin requests that run as tasks of their own while the pipeline
is suspended, edit the mapping file and the store's corrections from other
processes, and annotate label files while labelling jobs append to them. The
supervisor's `run` task checks health between any two suspensions of the
pipeline.

What is hard here: the pause flag is read at one moment and holds for many
sends; flush and push share a queue; a POST that timed out or failed may have
been applied; calls that were given up keep their threads; an agent can be replaced or removed while
one of its calls is suspended; shedding decides on metrics that describe the
past; a connection breaks between a LIST and its end; a process dies between a
row and its entities, or within a line of a label file; a mapping file changes
between two looks at it. The list of hazards, each at its line, is in
`PROJECT.json`.

## 2. Modules

| Module | Models | Role |
|---|---|---|
| `CoPSchema` | `output/cop_schema.py` | constants of an update, `Tier`, `NumRecords`, as the writer sees them |
| `CoPRESTClient` | `output/cop_rest_client.py` | one send: post, respond, expire, back off, retry |
| `CoPWriter` | `output/cop_writer.py`, admin handlers of `api.py` | composes the two above; pipeline and admin tasks on one event loop |
| `UpdateLifecycle` | (abstract) | what the writer promises about an update; `CoPWriter` implements it |
| `CircuitBreaker` | pybreaker (external) | a breaker as a value, and what calls and time do to it |
| `ThreadPool` | `run_in_executor` of `backend/bedrock.py`, `anthropic_direct.py`, `asksage.py` | the pool as a value: queue, threads, calls given up |
| `BackendList` | `_make_degrading_backend` in `replay.py`, `load_cascade_thresholds` | the slots and thresholds a configuration gives |
| `DegradingBackend` | `backend/degrading.py` | composes the three above; `extract` for several callers |
| `HealthAlarm` | `HealthAlarm` in `agent/supervisor.py` | the window of outcomes and the status computed from it |
| `Supervisor` | `agent/supervisor.py`, the waits of `process_message` | composes the alarm, the pool and the calls in progress |
| `Multiline` | `ingestion/multiline.py` | the source's fetch, the buffer, the generator and the pipeline that asks it |
| `IRCClient` | `ingestion/irc_client.py` | reader, discovery task and callers over a connection that fails |
| `CoPUpdate` | `models/cop_update.py` | the fields of reports that fusion, store and records read |
| `ChatLogs` | `ingestion/replay.py` | files, archives and directories as sequences of messages |
| `FusionAgent` | `agent/fusion_agent.py` | `process_updates` as operators on a batch, with its statistics |
| `WorldStateStore` | `output/store.py`, `scripts/analyze_overrides.py` | tables, and each statement with its commit; what the overrides say |
| `CoPRecords` | `output/cop_schema.py` | tiers, review flags, records, keys |
| `AdaptSchema` | `cli/adapt_schema.py` | the schema and mapping files and their writers: an operator's editor and the tool |
| `HotReloadAdapter` | `output/schema_adapter.py` | extends it: validation, construction and reload in their looks at the two files, transforms, payload |
| `Pipeline` | `run_replay` in `replay.py` | composes the seven above with deaths, restarts and operators |
| `SpeakerModel` | `models/speaker.py` | profiles as values |
| `OpenAICompatible` | `backend/openai_compat.py` | endings of a call, retries, the failure count |
| `RegexBackend` | `backend/regex_fallback.py` | extraction over texts given as the extractors that match them |
| `Calibration` | `calibration.py` | both fits and `calibrate` on exact fractions |
| `ModelAnswer` | validators of `models/cop_update.py` | coercion of a type and a confidence |
| `ChannelAgent` | `agent/channel_agent.py` | composes the five above for one channel whose agent may be replaced |
| `LabelStore` | `labels.py`, readers of `scripts/` | a label file as its lines; trust, merging, loading, comparing |
| `SilverLabels` | `scripts/generate_silver_labels.py`, `merge_labels` | the labelling job, killed and resumed, and annotators |
| `LabelEvaluation` | `scripts/eval_against_labels.py`, `recalibrate.py`, `eval_models.py`, `eval_speaker_models.py` | the measuring loops and their scores; the scores of a stored replay |
| `LabelWorkflow` | | composes the three above |
| `CoPWriterProofs`, `DegradingBackendProofs`, `SupervisorProofs`, `MultilineProofs`, `IRCClientProofs`, `PipelineProofs`, `ChannelAgentProofs`, `LabelWorkflowProofs` | | theorems and their proofs |
| `MC*` | | instances for TLC |

### The event loop

A variable `loop` (in `CoPWriter` and `DegradingBackend`) names the task that
holds the event loop. Actions that call into a component, and those that wake a
suspended task, need it to be free; an action that suspends releases it. So two
tasks interleave in the model exactly where the code suspends, and a model step
is a stretch of code in which nothing else can run. In `Supervisor` every action
is one such stretch by itself, so no such variable is needed.

### CoPWriter

`pc`, `cur`, `idx` and `flushing` are a task's place in `push_update` and
`flush_pause_queue`; `send`, `attempt` and `client` its place in the REST
client. `CallPush` is the head of `push_update`, used by the pipeline
(`PushUpdate`) and by a flush (`FlushNext`) with the queue they see.
`DispatchRecord` is a turn of the record loop up to the send, `WakeUp` the
response, the timeout or the end of a backoff, `FinishRecord` the counting of
the result. A response that is no 2xx, like a timeout, tells nothing of whether the
server applied the record. The adapter may raise before anything is sent
(`MapRaises`). The transport (REST, dry run, the older client, or none) is
chosen in the initial state and never changes. `cop` counts how often the server applied
each record; `outcome`, `evicted` and `fresh` are history variables.

Data is abstracted: an update is an atom with a confidence, a type and a number
of entities, a record of it is its position in the list of records. The queue
of results that `push_update` returns is not kept; `outcome` says the same.

### DegradingBackend

A call walks over the slots: `Skip` an open breaker, `Try` a backend and wait,
then `Answered` or `Errored`. A result whose breaker another caller opened in
the meantime is discarded (`Discard`), as the code's `CircuitBreakerError` does.
The model is more general than the program here: `run_replay` gives each agent a
backend of its own (`replay.py:114`) and awaits one call after the other, so in
the program breakers are not shared and `Discard` does not happen. What the
callers do share is the event loop's thread pool.
`up` is the environment: whether a backend answers in time. `Tick` ages open
breakers up to their cooldown.

A backend with a blocking client runs its call on the event loop's thread pool
(`pool`): the call waits for a thread (`TakeUp`), runs there, and Ask Sage's may
be queued again. When `wait_for` gives a call up before it got a thread it is
withdrawn; one that runs goes on and keeps its thread until the client returns
(`Unstick`, for which nothing is assumed: `timeout` of the Bedrock and Anthropic
backends is stored and never passed to their client, and Ask Sage's has none).
The slots and thresholds are those `run_replay` builds, computed from a
configuration by `BackendList`; a threshold file that is not JSON raises at the
start and is left out, and the range of its numbers is not checked by the code.

### Supervisor

A call suspends in speaker inference (`inferring`) or in extraction
(`extracting`); `Inferred`, `Extracted` and `Raised` are what happens when it
is resumed, including the second look at the pool that raises KeyError when the
agent was stopped (`Return`): the updates of that call are then lost, and an
error passthrough takes their place. `HealthCheck` is the whole of `health_check`:
restarts first (each un-sheds its channel), then shedding or restoring.
`failed`, `received` and `slow` are the process-wide metrics it decides by: the
latency is kept as whether the maximum ever exceeded the threshold. `outcomes`
is a history variable: the window the alarm would have if every outcome reached
it.

### Multiline

`fetch` is the task that reads one message from the source, `pc` where the
generator is: at the pipeline (it has yielded, or not been asked yet), waiting,
or done. The fetch goes on while the pipeline is busy and while the timeout
fires, so `Arrive` and `Cease` need only a fetch in progress. `Take` is `add`
with the yields that follow from it (`Collect`, `Displace`, `PassThrough`);
`held` is the message that a plain message's flush leaves to be yielded at the
next request. A message is its position in what the source gave, and `out`
records the positions each output stands for, so that order, loss and
duplication can be told. The text of a merged message says, for each line
number, which message it was taken from.

### IRCClient

The reader, the discovery task and callers are coroutines that share the
client's fields; an action is the code between two awaits of the connection. A
command takes effect on the server when it is sent; what the server sends waits
in `inbox`, one or two lines a frame. The connection may fail in every await and
while nothing is awaited. `got`, `first`, `leaked`, `raced`, `parted`, `cutList`
are history variables: what was yielded, where the current connection's messages
begin, and which of the known races have happened.

### Pipeline

`pc` is the place in the loop: reading, routing a message (the agents appear as
what they return for it: `Routed`, which drops what an agent answers with type
"none" but lets the passthroughs of failed agents and shed channels through),
fusing, writing a row, its entities one by one, and
pushing the update. `Dies` stops the process at any of these and the next one
starts with empty memory and the tables as committed; a live feed then goes on
from where it is, a recorded one is not replayed. `log` is what the source
brings, computed by `ChatLogs` from files; `out` the fused updates not yet
through; `lost` the reports that were only in memory at a death. Confidences are
in thousandths.

The adapter's files change between any two of its looks at them. When it is
built it reads the schema, then the mapping, and asks for the mapping's
modification time last (`building`); at a check it asks for the time first and
then reads both (`reload`). A version of the mapping file stands for that time.
The operator writes mappings, good and bad ones, and may put the first one back
with its old time. The tool (`MakeMapping` and what follows) empties the schema
file, fills it, empties the mapping file and fills it, the last two maybe within
one tick of the clock; it may be stopped in between. A mapping refused at the
start ends the program, which is started again. `gap` is a history variable: the
time that was noted while another version of the file, or an older schema, was
read. With one edit only the constructor can get there; with two also a check,
when the file changes between its look at the time and its reading and is then
put back.

What is sent to the CoP is recorded with the schema and the mapping in force. The writer is
reduced to the payloads that it sends (`pushed`); its own interleavings are
those of `CoPWriter`. Records of one update are mapped one after the other; the
check of the mapping file is put on the first.

### ChannelAgent

`agents` are the agents that served the channel, the last one being in the pool;
`served` says which one got each message. A call suspends in speaker inference
and in extraction, where `Restart` may replace the agent: the call then goes on
with the old one (`Hand`). The model's answer is any value it may write, coerced
by `ModelAnswer`; when the model fails the regular expressions answer from the
same prompt. Confidences are in hundredths and calibrated ones exact fractions.
`speakers` of an agent has a profile for each speaker it has heard, as the
dictionary of the code has. A message (`Messages`) is its sender, its time, and
what the noise filter and the regular expressions make of its text.

### LabelWorkflow

A label file is the sequence of its lines. The job (`phase`) can be killed at
any moment and is started again, with any `--count`, with what it reads from the
file; annotators merge labels between any two of its steps. A kill within a
write leaves one of three things (`Remains`): the beginning of a line (`Cut`),
behind which the next label is lost; a line cut within a character
(`SplitCharacter`), after which the file is no UTF-8 and every reader raises; or
a whole label that lacks only its newline (`Unended`), which readers take for a
label until the next one is appended to its line and garbles both. Only the
job's writes are cut, not those of `merge_labels`. `Directory` is what
`load_labels` reads: the files in the order of their names, which `GoldFirst`
gives. The
evaluations (`tool`) run when no job does. A line of the export is taken for
noise or not by its text alone (`_is_noise`), which `JobAssumption` says.

## 3. Runs

| Run | Instance | What it shows |
|---|---|---|
| `cop_writer` | 3 updates (one of each tier, two records for the risky one), a pipeline and 2 admin tasks, 2 attempts, queues of 1, all transports | the writer's safety properties and the refinement of `UpdateLifecycle` |
| `cop_writer_live` | 2 updates, 2 admin tasks, 2 attempts, queues of 2 | backlog drained, calls return |
| `cop_flush` | as above | violated: a flush that is paused again never ends |
| `degrading_backend` | 2 callers, Ask Sage with another model behind it, 2 types, 2 confidences, a pool of 2 threads, 1 repeated query | cascade, clock, recovery, every call answered |
| `multiline` | 2 senders, lines 0 to 2 and plain text, 4 messages | order, whole blocks, last text of a number, nothing kept for good |
| `supervisor` | 1 caller, a channel of each priority, 3 messages, 1 restart, 1 stop | consistency, priority, restarts, release |
| `supervisor_alarm` | 2 messages, window of 1 tick | violated: silent failure is not seen |
| `supervisor_recovery` | 3 messages | violated: a tier once slow stays shed, or is shed and restored for ever |
| `irc_client` | 2 channels at most, 2 messages, 2 faults, 1 call of join or part | the stream, subscription, disconnect, discovery |
| `pipeline` | 7 feeds (live, file, archive, directories), batches of 3, a window of 30 s, 1 hand edit of the mapping or run of `adapt_schema`, any 2 disturbances | reports, tables, review of contradictions, mapping, storage |
| `channel_agent` | 3 conversations, window of 3 messages and 15 s, 2 agents, 1 retry, inference at the 2nd message and every 2nd; all calibrations from up to four samples of a small set | context and provenance; what is learned; the calibrations |
| `label_workflow` | 3 messages (two alike in the file), 2 runs of the job with a `--count` of 2 or 3, 1 merge, 2 cuts, 1 retry | resuming, trust, scores, the tools end |

Bounds and why they are enough:

- Writer: each update is pushed once. Two attempts give a success, a failure
  after a retry and an application by a timed-out POST. A queue of one overflows
  with the second element; two admin tasks make two concurrent flushes, next to
  the pipeline's own push. Nothing else is bounded.
- Backend: two callers fill the pool, and give every race on a breaker, which is
  more than the program has (section 2); a third adds no new pair. Two failures open a breaker, so the counting
  is seen; one tick separates before and after the cooldown. The regex slot that
  `run_replay` always adds is left out: it never fails, so with it the
  passthrough is never reached and the contract's second half never tested.
- Supervisor: `MaxMessages` bounds calls of `route_message`, `MaxStops` those of
  `stop_agent`. Three messages reach every combination of one slow, failing or
  shed channel of each priority. One caller is what the pipeline has; the
  interleaving that matters is that of its call with health checks and stops.
  `WindowTicks` is 0 where no property speaks of the window.
- Multiline: `MaxMessages` is the length of the input. Four messages give a
  block of three and its displacement, two blocks in a row, and a repeated
  number; a fifth would repeat one of these. The generator may end, so deadlock
  is not checked in this run.
- IRC: `MaxFaults` bounds lost connections, failed attempts and bad frames: with
  two a reconnection can fail again, or the connection that replaced a lost one
  is lost. The directory of the server lists more channels than `MaxChannels`
  allows, so discovery has to choose.
- Pipeline: a batch of three takes two reports that merge and one that does not,
  and leaves a rest at the end of a feed; the code's five only repeats this. The
  feeds are chosen so that reports corroborate, contradict, fall on both sides
  of the window, name an entity by track or by callsign or not at all, so that a batch has the
  passthrough of a shed channel in it, and so
  that the same exchange arrives as a file, an archive and a directory. `MaxDisturbances`
  is how many deaths, failed fusions, judgements of an operator and changes of
  the adapter's files there are altogether: with two, every pair of them meets
  in either order, also two of a kind (a second death during the restart).
  `MaxEdits` is one change of the mapping, by hand or by the tool, so a check
  sees an old, a half-written and a new pair of files, and the old mapping put
  back next to a new schema. More edits multiply the loop's states beyond what a
  run can take; `MappingCorrect` covers any number of them.
- Agent: a window of three is filled and emptied by age within a conversation;
  two agents are enough for a call that outlives its agent. Calibrations are
  checked from all sequences of up to four samples, which is where pooling
  meets pooling.
- Labels: two cuts end each of two runs within a line, also within a line that
  was open already, and two runs are enough for one that resumes. The other file
  comes after the job's here, the harder order for a human label; the theorems
  cover both. `MaxMerges` is one label of an annotator, offered before,
  during or after the job.

A replay or a tool may end, so `CHECK_DEADLOCK FALSE` is set where a program
stops: `multiline`, `pipeline`, `irc_client`, `channel_agent`,
`label_workflow`.

### Properties

Writer: `HumanTierStaysLocal`, `CountersBalance`, `DeliveryIsHonest`,
`ReviewQueueIsExact`, `LossOnlyByOverflow`, `LifecycleSpec`,
`BacklogIsDrained`, `CallsReturnUnlessPaused`. Backend: `CascadeContract`,
`AdaptClockTracksBreaker`, `PrimaryRecovers`, `CallsReturn`. Supervisor:
`ShedIsConsistent`, `LowGoesFirst`, `RestartsLoseNoUpdate`, `ShedIsReleased`.
Multiline: `EveryMessageOnce`, `BlocksAreWhole`, `LastTextWins`,
`EveryMessageComesOut`. IRC: `StreamIsWhole`, `SubscribedToAll`,
`DisconnectLeavesNothing`, `DiscoveryRespectsMax`, `StaysSubscribed`,
`DiscoveryGoesOn`. Pipeline: `EveryReportOnce`, `StoreIsConsistent`,
`ContradictionsAreReviewed`, `MappingIsCurrent`, `EveryReportIsStored`. Agent:
`ContextIsHonest`, `LearningFollowsEvidence`, `CalibrationIsFair`. Labels:
`ResumeIsExact`, `HumanLabelsPrevail`, `MarksAreEarned`, `ToolsEnd`.

Each is stated in words above its definition. For every one of them
`PROJECT.json` names a plausible bug (a definition marked `Fault` in the module)
that makes TLC report it. The `TypeOK` of `Multiline`, `IRCClient`, `Pipeline`
and `ChannelAgent` says what the variables hold and is not part of a run, nor is
that of `DegradingBackend`, which section 5 proves; that of the other modules is.

### Fairness

- `CoPWriter`: strong fairness of each task's steps. httpx and tenacity bound
  every wait, and asyncio runs ready tasks in FIFO order, so a task that keeps
  becoming ready gets the loop. Nothing is assumed of operators or of the
  pipeline's input; `CallsReturnUnlessPaused` has the operators' behaviour as a
  hypothesis because `cop_flush` shows what happens without it.
- `DegradingBackend`: the same for callers (`wait_for` bounds every wait), a
  free thread takes up a queued call, and time passes. Backends may fail and
  recover at any time. A call that was given up need never end: no client gets a
  timeout. `PrimaryRecovers` therefore has as a hypothesis that none is left,
  for calls of a healthy backend time out behind full threads.
- `Supervisor`: the health check runs again and again (`run` sleeps between two
  of them), and calls get an answer. In the deployed replay pipeline nobody
  starts `run`; there the supervisor never checks health at all.
- `Multiline`: the pipeline goes on asking, the generator runs when it can, and
  timers fire. The source is not fair: it may stay silent for ever.
- `IRCClient`: the reader goes on (attempts to connect end, by success or by
  failure, and the backoff is bounded) and so does the discovery task, whose
  sleeps are timers. The server need not send anything nor answer a LIST by
  itself; what it has sent is read.
- `Pipeline`: the loop goes on, written as weak fairness of `Turn` with its
  guard spelled out, and a recorded source gives its next message. A live feed
  may stay silent. Deaths and operators are not fair.
- `LabelWorkflow`: loops over the OpenAI-compatible client go on, because it
  gives up after its timeout. The Ask Sage loop passes no `hard_timeout`, so
  nothing is assumed of it.
- `ChannelAgent` has safety properties only.

## 4. Findings

1. `cop_flush`: paused during one of its POSTs, `flush_pause_queue` pops and
   re-appends the same updates for ever without suspending; the event loop
   stands still and no resume can be served.
2. `supervisor_alarm`: the alarm for silent failures never sees a passthrough,
   because the agent labels it as an extraction and drops it.
3. `supervisor_recovery`: overload is computed from an all-time maximum, so one
   slow answer sheds a tier for the rest of the run, or sheds and restores it at
   alternate checks.

Observations made while modelling. The models do what the code does; none of
these is a run of its own.

Writer and admin API.
"Immediately stop all writes" (`cop_writer.py:127`, `api.py:75`): an update in
progress goes on, record by record and retry by retry. `pause`'s docstring says
queued updates "will be flushed on resume()", `resume`'s that it does not flush;
the bounded pause queue contradicts the dashboard's "never drop data"; the REST
client's docstring lists 5xx as retried, the code does not retry them; `api.py`
says the writer is set by the lifespan, which never sets it, so the admin routes
answer "standalone mode" unless a test injects one; nothing in the package calls
`open` on the REST client that `CoPWriter.from_config` builds, so every live
send fails until somebody does (the model covers both).

Supervisor and agents.
A channel stopped during a call of its agent loses the updates of that call:
`self._agents[channel]` raises KeyError (`supervisor.py:345`) and an error
passthrough is returned instead. `RestartsLoseNoUpdate` is about restarts and
makes an exception of it.
Restarts repeat without new evidence, because the error counter is cumulative. A
restart drops the window, the profiles and the backend's failure count. A late
message may stay in the window behind newer ones. Answers of the regular
expressions are labelled "llm". The speaker's `reliability` in a prompt
(`speaker.py:189`) is never updated. `model` and `prompt_hash` are absent on a
`DegradingBackend`, so an update's provenance lacks them. The regular
expressions also extract from the part of the prompt that is earlier context
(`regex_fallback.py:385`, `channel_agent.py:208`), while their noise rules,
which look at the beginning of the text, never match an agent's prompt. For a
speaker inference the fallback returns a `CoPUpdate`, and the AttributeError
that follows is swallowed. With the deployed thresholds
(`config/cascade_thresholds.json`, "none": 0.5) a model's confident NONE of
confidence 0.0 escalates to the regular expressions.

Model answers and calibration.
"1%" becomes confidence 1.0 and "0.9%" becomes 0.9, because the percent sign is
only stripped; a number just above 1 is divided by 100. Tied confidences make
the isotonic fit differ from the least-squares one; histogram calibration is not
monotone.

Backends.
`llm_timeout` (120 s) is the slot's timeout while the hard timeout of the client
is 45 s. A thresholds file that is not JSON stops the program at its start; the
range of its numbers is not checked.

Chat sources.
Archives within a directory keep the date in a channel name of another form. A
directory with per-channel logs and a combined log gives every message twice;
text files beside an archive are ignored. A directory name such as 31Feb raises.
A line has only a time of day, so a log that crosses midnight is sorted wrongly
(`replay.py:57-65`, `179`); a single file is not sorted at all, although the
docstring promises timestamp order. On IRC, a LIST cut by a disconnection ends
discovery for good (`docs/MASH_DEPLOYMENT.md:631` says it goes on);
`disconnect` during an attempt to connect leaves the new connection open; `part`
during a round of joins makes it skip or repeat a channel; a binary frame makes
the reader drop an open connection without closing it; a PING answered on a
broken connection loses the rest of its frame. Nothing in the package calls
`join`, `part` or `disconnect`.

Fusion, store and pipeline.
`_updates_contradict` compares all pairs of entities (`fusion_agent.py:77`),
also of different tracks. Reports of different types about one entity merge, and
those other entities and types are lost to the store. The agents drop answers of
type NONE (`channel_agent.py:375`); the only updates of that type that reach
fusion are the passthroughs of failed agents and shed channels
(`channel_agent.py:341-354`, `supervisor.py:325-339`, `356-368`), so
`channel_noise_rate` counts those and no noise. The filter in front of the store
(`replay.py:274`) takes them out, so "every message gets something written to
the CoP" (README) holds for neither. A quiet live feed
keeps up to four messages' updates pending. A process that dies loses up to a
batch of updates and the remaining entities of one row; messages sent meanwhile
are missed. `write_speaker` has no caller.

Records and adapter.
An affiliation or status not spelled like a member of its enum becomes UNKNOWN in
the CoP while the store keeps the text. `altitude_ft` and `capability_impact`
never reach a track ("never lose data", `cop_schema.py:133`, `161`). Records of
a battle effect resolve `track.*` to null, and required fields are sent as null.
An `int` or `float` transform of a text that is no number makes every send of a
valid mapping fail. An entity without track or callsign gets a new identifier
for each push. An edit of the mapping file between the constructor's two looks
at it is never noticed. Only the mapping file's time is checked
(`schema_adapter.py:337`), so a schema changed alone is not noticed either.

The tool that adapts a schema.
For several tables the template maps the columns of all, but the target schema
has those of the widest table only, so the adapter refuses what the tool has
written (`tests/test_adapt_schema.py:3` calls it valid; its tests have one
table). A model's proposal is written without validation and may leave out
required fields. Reflecting a database with a primary key raises a TypeError,
because the names of its columns are taken from a string. A column whose name
begins with an underscore is a note to the adapter, so a required one makes the
mapping invalid. A model's answer that is no object, or an entry of it without a
source, stops the tool before it has written anything.

Overrides.
`override_rate` of `scripts/analyze_overrides.py` counts overrides, its groups
count each overridden update once.

Labels.
Labels of failed calls count as labels, so a resumed job never asks again. A
cut line makes the next label unreadable too. A label cut before its newline is
read by `_load_existing_labels` and skipped, then garbled by the next append:
two messages without a label that a finished job reported as done. A line cut
within a character makes `labels.py`, the job itself and the evaluations raise
UnicodeDecodeError until somebody edits the file, because they catch only
JSONDecodeError. `existing` is not updated during a
run, so one raw line can be labelled twice. `merge_labels` drops a human label
when the file already has any label of the line. `load_labels` keeps the first
of equal trust, `compare_labels` the last. `eval_against_labels` reads only
`extracted_type`, so human labels with `expected_type` score as "none". A wrong
type counts as a false positive only, and rates are divided by a total that
includes errors. `eval_speaker_models` counts a right "none" as a miss, because
such updates are never stored, and takes labels of failed calls for labels of
type "none".

## 5. Proofs

TLAPS proves the following for every value of the constants that satisfies the
modules' named assumptions.

| Theorem | Statement |
|---|---|
| `CoPWriterProofs!TypeCorrect` | `Spec => []TypeOK` |
| `CoPWriterProofs!HumanTierCorrect` | `Spec => []HumanTierStaysLocal` |
| `CoPWriterProofs!ReviewQueueCorrect` | `Spec => []ReviewQueueIsExact` |
| `CoPWriterProofs!DeliveryCorrect` | `Spec => []DeliveryIsHonest` |
| `CoPWriterProofs!LossCorrect` | `Spec => LossOnlyByOverflow` |
| `CoPWriterProofs!WriterImplementsLifecycle` | `Spec => LifecycleSpec` |
| `CoPWriterProofs!CountersCorrect` | `Spec => []CountersBalance` |
| `DegradingBackendProofs!TypeCorrect` | `Spec => []TypeOK` |
| `DegradingBackendProofs!ClockCorrect` | `Spec => []AdaptClockTracksBreaker` |
| `DegradingBackendProofs!CascadeCorrect` | `Spec => CascadeContract` |
| `SupervisorProofs!TypeCorrect` | `Spec => []TypeOK` |
| `SupervisorProofs!PoolIsConsistent` | `Spec => []ShedIsConsistent` |
| `SupervisorProofs!PriorityIsKept` | `Spec => LowGoesFirst` |
| `SupervisorProofs!RestartsAreSafe` | `Spec => RestartsLoseNoUpdate` |
| `MultilineProofs!OrderIsKept` | `Spec => []EveryMessageOnce` |
| `MultilineProofs!BlocksAreKeptWhole` | `Spec => []BlocksAreWhole` |
| `MultilineProofs!LastTextIsKept` | `Spec => []LastTextWins` |
| `IRCClientProofs!DisconnectCorrect` | `Spec => []DisconnectLeavesNothing` |
| `IRCClientProofs!DiscoveryCorrect` | `Spec => DiscoveryRespectsMax` |
| `IRCClientProofs!SubscriptionsCorrect` | `Spec => []SubscribedToAll` |
| `IRCClientProofs!StreamCorrect` | `Spec => []StreamIsWhole` |
| `PipelineProofs!OutcomeKeeps` | `Outcome(batch, fails)` stands for each report of `batch` once, contradictions with at most 0.8 of confidence |
| `PipelineProofs!MappingCorrect` | `Spec => []MappingIsCurrent` |
| `PipelineProofs!RowsCorrect` | `Spec => []RowsAreComplete` |
| `PipelineProofs!ReportsAreKept` | `Spec => []EveryReportOnce` |
| `PipelineProofs!ContradictionsHeld` | `Spec => []ContradictionsAreReviewed`, if `AutoThreshold > 1000 - ContradictionPenalty` |
| `PipelineProofs!TablesAgree` | `Spec => []StoreIsConsistent` |
| `ChannelAgentProofs!ContextCorrect` | `Spec => []ContextIsHonest` |
| `ChannelAgentProofs!LearningCorrect` | `Spec => []LearningFollowsEvidence` |
| `LabelWorkflowProofs!ResumeCorrect` | `Spec => []ResumeIsExact` |
| `LabelWorkflowProofs!AnnotatorsPrevail` | `Spec => []HumanLabelsPrevail` |
| `LabelWorkflowProofs!MarksCorrect` | `Spec => []MarksAreEarned` |

**Writer.** `TypeOK` is not inductive: that `attempt` stays within
`RetryAttempts` needs that a task in backoff may still retry, and that a record
exists needs that the index is within its update. `TaskPlace` adds exactly that:
a task works on an update only inside `push_update`, sends only there and only a
record that is not for an operator, and waits to retry only while it may.
`IInv` is the conjunction. `HumanTierStaysLocal` then follows step by step: only
the record a task is sending changes on the server or is settled as written or
failed, and that record is never one for an operator.

**Writer, updates and records.** `UInv` adds to that invariant where an update
and its records are. `OnePlace`: an update is not taken yet, pushed out, in the
pause queue or in the hands of one task, and never in two of these. `Untouched`:
records behind the one a task is at have left no trace. `InFlight`: the record a
task is sending was applied at most once for each attempt that has ended. No
part is inductive alone: that a record is settled once needs that no two tasks
hold its update, which needs that the queue holds it once, which needs that a
flush puts back only what it took. `DeliveryIsHonest`, `LossOnlyByOverflow` and
the refinement follow from `UInv`, the refinement with one case for each action.
`CountersBalance` equates a counter with a cardinality: each step settles at
most one record, and the lemma on cardinalities gives the rest.

**Backend.** `PlaceInLoop` relates a caller's place to its slot; with it the
types are inductive. The clock needs that a breaker's failures stay below the
maximum exactly while it is closed. For the cascade, `BestSoFar` says that while
a call is under way its best result is the best of those it has seen, all of
them below their thresholds.

**Supervisor.** `ShedIsConsistent` is inductive with the types of the pool
alone. The lemmas on `Shedding` carry the argument: shedding adds only channels
of the pool that are not HIGH, restoring adds none, and a MEDIUM channel remains
shed only together with every LOW one. `LowGoesFirst` follows from the second.
`TypeOK` needs that the alarm's window is in order of age (`Ages`), or pruning
from the front would leave old records behind, and that a call under way is on a
channel with an agent, or on one whose agent was stopped meanwhile (`InCall`). `RestartsLoseNoUpdate` is a
property of steps that follows from the types.

**Multiline.** `EveryMessageOnce` becomes inductive (`OInv`) with two facts: a
message is held only while the pipeline has an output and the buffer is empty
(`Shape`), so a block is never yielded ahead of it, and every output ends at a
position already taken (`Lasts`). The lemma `YieldInOrder` is the heart: a
block that follows the last output can be added to the outputs. For
`BlocksAreWhole`, `Contents` says that every block holds messages the source has
given and `Border` what separates the buffered block from the last one yielded:
it does not continue it, or a timeout came between. `LastTextWins` is about a
fold: `MergeIsPart` shows that the fold over any block is a closed form (`Part`),
by an induction that needs no operator as a parameter: `Induction` takes a set
of numbers and follows from the library's theorem on minimal elements.

**IRC client.** `TInv` types the variables and says that a frame has at most one
end of a LIST (`FramesOK`). `DisconnectLeavesNothing` needs `ConnOK`, which
relates the reader's place, the connection and who has stopped it; the one
outcome it excludes is a `disconnect` during an attempt to connect, which
`raced` records. `DiscoveryRespectsMax` needs only the types, because the slots
are computed from the list of channels as it is when the LIST ends.
`SubscribedToAll` needs `ChannelsOK`: in a round of joins the channels before
the reader's place are joined, and while it reads each is joined or pending.
`StreamIsWhole` becomes inductive as `SInv`: the frames still to be read hold
exactly the numbers from the next one to yield to the last one sent, in order
within a frame and from frame to frame; a connection that drops keeps a prefix.

**Pipeline, the mapping in force.** `AInv` relates three things that are looked
at one after the other: the file, the time noted and the mapping read. A version
of the file has one content (`Versions`). The time noted is that of the mapping
read, but in a gap (`Noted`); a schema that was read still is the file's unless
the mapping will change too, because the tool writes the schema first
(`Reading`, `Matching`). `Known` closes the argument: after a check a valid file
has the noted time. The second half, that everything sent fits the schema it was
made for, is inductive with the fact that the mapping in force is valid
(`PayloadsFit`). It is the proof that showed what one edit of the run hid: the
invariant could not be kept while `gap` belonged to the constructor alone.

**Fusion.** `_fuse` sorts a batch by time, deals it out into groups and merges
each group. In the model a sort puts at each place the element of that rank; the lemmas on ranks show that the result
has each element of the batch at one place (`Arranges`), without an induction
over lists. The grouping is a recursive function of the number of updates taken;
`Flock` is its invariant (groups that are not empty, of updates of the batch,
none of them twice, an update without an entity alone in its group), carried
along by induction over numbers. A merge keeps the
update with the highest confidence as it is, but for that confidence and the
reports it stands for (`UpdateBut`). From these, `OutcomeKeeps`: what comes out
has the right shape and no report twice (`Sound`), stands for the reports that
went in (`Reports`), and where it stands for two that contradict each other it
has lost confidence (`Doubted`), also when fusion raises and the batch goes on
as it was scored. What comes out with type "none" stands for passthroughs alone
(`Silent`): they have no entity, so nothing is merged with them.

**Pipeline, the reports.** `EveryReportOnce` and `ContradictionsAreReviewed` are
two readings of `EInv`. `Feed`: the source has the rest of the log. `Lists`: the
batch is of different messages, the fused updates and the rows are `Sound`, and
while entities are written the last row is that of the update in hand. `Apart`
and `Everywhere`: the reports in rows, in memory and lost are disjoint, and
together those of every message read. `Batched` is what the invariants lack when
a process dies while a batch is written: the batch is still `pending`, but some
of it is in rows already, and only the rest is lost. It does not say so of what the
filter in front of the store took out, which by `Silent` is passthroughs. `Penalties`: an update, or
a row, that stands for contradicting reports has at most 0.8 of confidence.
`Tiers`: what was pushed has the tier of its row. `ContradictionsHeld` assumes
that `AutoThreshold` is above 0.8, as the default of 0.85
(`src/src/chat_to_cop/config.py:214`) is. The assumption is needed: the
threshold is a setting, and with one of 0.8 or less a contradiction between
reports of full confidence goes out unmarked.

**Pipeline, the tables.** `RowsAreComplete` is the part of `StoreIsConsistent`
about a death between a row and its entities. `WInv` counts the incomplete rows
other than the open one, and says that the open row is that of the first fused
update. A death closes the open row, so both sides grow by one. The other parts
follow with `SInv`. `Progress`: of the row in hand the entities up to the
loop's place are written, and rows that went out are whole. `Sequenced`: among
any mentions of entities one is the last. `Judgements`: corrections and overrides
are of rows that exist. `EntitiesFollowRows` itself is inductive because a new
mention is later than every other one, so what was last given changes for the
entity just written and for no other; a death or a restart changes no mention.
`StatsAddUp` equates a sum over channels, or over speakers, with the number of
judgements: each is counted in exactly one class, which is a bijection
(`ClassesAddUp`) rather than an induction. `CoPHasSameKeys` follows from
`Progress`: what went out was written before.

**Channel agent, the context.** A window is trimmed at its front twice, by
number and by age, so what it holds is a suffix of what joined it. Rather than
count positions, `Latest` says so of a sequence and a set of messages, and the
lemmas on it say that a message later than all of them may be added and that any
suffix that is not empty stays `Latest`. `CInv` adds where a call is (`Places`)
and that an answer exists between two calls only. In it the one hard case is an
inference: its message has been served but has not joined, and an agent put in
the pool meanwhile must not get it. The entities of the fallback are those of
lines that it was shown, which are the window's (`ExtractedFromPrompt`).

**Channel agent, what it learns.** `SInv` says of each agent and speaker what
`Knows` says: where speaker models are in use there is a profile exactly if the
agent has heard the speaker, and it counts those messages (`Tells`). Two parts
make that inductive. `Owed`: while an inference is under way its activity has
not been counted, so one more stays within the number due; `DueStep` is the
arithmetic of `_should_infer_speaker`. `Backed`: feedback counted, and feedback
still to come for messages of the speaker, are together no more than the
speaker's messages that are done with, so feedback in any order, after a
restart, or for an agent that never heard the message cannot count a message
twice. A score is above the middle only after a corroboration and below it only
after a contradiction (`ScoreStep`). `RInv` relates the failure count to the
last answer that counts, and a call to the retries it started with, also while
the agent it belongs to is replaced.

**Labels.** `ResumeIsExact` speaks of three cardinalities, and each has an
invariant that says what one more step may add. `AtMostOnce`: while a job runs,
a line without a label at its start has no more readable labels than the job is
past messages with that line. `NoneForgotten` bounds what should have a label
and has none (`Missing`): messages that a job got through, the one under way
included, and those whose label the running job had read at its start. Each kill
within a line may cost two, and `Pending` is what it has not cost yet: one for
the label that will be appended to the open line, and one more (`Spoils`) when a
whole label stands there. So the sum of the two grows at a cut only, by two at
most, and an append moves them from `Pending` to `Missing`. The lemmas on
`AppendLine` and `CutLine` say what happens to the last line and that nothing
happens to those before it. That one message adds one label is the same step on
both sides of the inequality. The invariant is needed in this form because the
bound of one message for each cut, which seems right at first, is not the
code's. Of a file that does not decode the property says nothing.

**Labels, trust.** What a reader gets is a recursive function of the number of
lines read (`Chosen`, then `Keep`), and both are followed by induction over
numbers: the labels read are those of the file's lines (`ReadLabels`), and what
`load_labels` keeps of labels `L` is `Best` of `L`: in it each raw line of `L`
has one label, and none of `L` for that line is trusted more (`KeepBest`,
`LoadKeeps`). `HInv` then says which labels of annotators there are: those in
the two files are of the adopted lines, each of which has one, and the other file holds nothing
else. A label appended to an open line is lost and adopts nothing, so the
merge keeps it; a kill cuts only the job's own lines, so an adopted label is never
the one that is garbled. Where no annotator has decided and the job has labelled a line
once, the directory and the job's file have the very same label (`SameLabel`), so
they can disagree only on the other lines.

**Labels, marks.** `MInv` types the tools: no file changes while one runs, so its
items are labels the files hold (`Known`), it waits for a model only about an
item, and the equations of its tally hold between any two items
(`AgainstAdds`, `ModelsAdd`). Full marks are not inductive by
themselves; `earned <= total` makes them so. `SumOf` counts pairs, so that one
item more is one element more (`OneMore`). The scores of a replay are recursive
functions of the labels, whose existence `Stepwise` gives. `LastChosen`: of each
raw line the updates that were stored end with its last answer, so the index of
`eval_speaker_models` holds what a tool that asks would be told. From that,
`SameMark` for one label and `MarksAgree` for any number of them. That a label of
the noise filter is never found in the index needs that equal lines are equally
noise.

Only model-checked: the liveness properties (fairness and ENABLED are beyond the
prover); `CalibrationIsFair`, which says what folds over the samples compute
(sorting them, pooling violators) and would need an induction over data, with
nonlinear arithmetic on its fractions, and for the same reason the `TypeOK` of
`ChannelAgent`, which bounds a calibrated confidence; and the three statements of
section 4, which TLC finds violated.

## 6. Plan

Done, each with its instances and mutants: `CoPWriter` with its client, schema
and abstract specification; `DegradingBackend` with its breakers, thread pool
and slot list; `Supervisor` with the alarm; `Multiline`; `IRCClient`; `Pipeline`
with recorded chat, fusion, store, records and adapter; `ChannelAgent` with
speakers, backends, calibration and model answers; `LabelWorkflow`; the theorems
of section 5.

Next, in this order:

1. The composition of `Pipeline` with the whole of `CoPWriter` rather than the
   payloads it sends.
2. A second LLM slot in `ChannelAgent`.

## 7. Not modelled, and why

Wording, prompts, regular expressions, SQL text, HTML and log output carry no
control that a property here is about. The dashboard is a page that polls the
read-only API. Command-line arguments, the prompt of `adapt_schema`, the types of
columns, reports, reference catalogues and the text
of generated test chats are static or write-only. Counters and trackers (MLflow,
the summary of a replay, latencies, path entropy) are left out except where the
supervisor decides by them.

Within modelled modules these are left out: the passthrough adapter and the
parsing of an adapter's name; `ece`, the reliability diagram, load and save of
`calibration.py`; coercion of metadata and capabilities; a speaker's JSON lists
(no caller); the read queries of the store; `get_stats` and the read-only
routes; `discover_channels=False` of the IRC client; the scores of single
fields and speakers and the latencies of the evaluations. Configuration appears as constants.

The CoP server, the chat server, pybreaker, httpx, tenacity, asyncio, SQLite and
the models are external: they are modelled from how the code uses them.

## 8. Running

    tlc -workers 2 -config MCCoPWriter.cfg MCCoPWriter
    tlapm CoPWriterProofs.tla

and likewise for the other instances and proof modules; `PROJECT.json` lists
which configuration belongs to which module.
