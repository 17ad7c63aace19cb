----------------------------- MODULE SilverLabels -----------------------------
(***************************************************************************)
(* Generating silver labels (scripts/generate_silver_labels.py): a job     *)
(* labels the messages of an export one after the other with a strong      *)
(* model and appends each label to a file; started again, it goes on with  *)
(* the messages that have no label there.  It may be killed at any moment. *)
(* Annotators merge labels of their own (labels.py) meanwhile.             *)
(***************************************************************************)
EXTENDS LabelStore

CONSTANTS
  Messages,      \* the parsed export: a sequence of [raw, noise]
  CountOptions,  \* values of --count: at most how many messages, or labels, to go through
  Extractions,   \* what a model may find in a message: a set of [type, keys]
  MaxRetries,    \* max_retries of the job's own loop
  MaxRuns,       \* bound: how often a job is started
  MaxMerges,     \* bound: how many labels annotators offer
  MaxCuts,       \* bound: how often a writer is cut off within a line
  GoldFirst      \* whether the name of gold comes before that of silver

ASSUME JobAssumption ==
  /\ Messages \in Seq(Range(Messages))
  /\ \A i, j \in DOMAIN Messages : Messages[i].raw = Messages[j].raw => Messages[i] = Messages[j]
  /\ \A e \in Extractions : e.type \in UpdateTypes /\ IsFiniteSet(e.keys)
  /\ {MaxRetries, MaxRuns, MaxMerges, MaxCuts} \subseteq Nat
  /\ CountOptions \subseteq Nat
  /\ GoldFirst \in BOOLEAN

RawLines == {Messages[i].raw : i \in DOMAIN Messages}

VARIABLES
  silver,      \* the file the job appends to
  gold,        \* another file of the label directory
  phase,       \* where the job is: idle, looping, waiting for the model, backing off
  service,     \* which loop it runs: generate_labels or generate_labels_asksage
  at,          \* the message it is at
  limit,       \* how many messages it goes through
  existing,    \* the raw lines that had a label when it started
  retries,
  counts,      \* extracted, noise, errors, skipped of this job
  runs, merges, cuts,   \* the bounded counters
  adopted,     \* history: raw lines of the human labels merge_labels added behind a whole line
  finished     \* history: the most messages a job got through without being killed

jobVars == <<phase, service, at, limit, existing, retries, counts>>
fileVars == <<silver, gold, cuts>>
labelVars == <<jobVars, fileVars, runs, merges, adopted, finished>>

NoCounts == [extracted |-> 0, noise |-> 0, errors |-> 0, skipped |-> 0]

InitLabels ==
  /\ silver = <<>> /\ gold = <<>>
  /\ phase = "idle" /\ service = "openai"
  /\ at = 1 /\ limit = 0 /\ existing = {} /\ retries = 0
  /\ counts = NoCounts
  /\ runs = 0 /\ merges = 0 /\ cuts = 0
  /\ adopted = {} /\ finished = 0

-----------------------------------------------------------------------------
(* _label_to_dict, _noise_label and the error labels: all are llm_judge's, and *)
(* an error counts as a label of type "none".                                  *)
Label(raw, method, extraction) ==
  [kind |-> "label", raw |-> raw, source |-> "llm_judge", method |-> method,
   expected |-> NoType, extracted |-> extraction.type, keys |-> extraction.keys]

Nothing == [type |-> "none", keys |-> {}]

(* A label of an annotator: it carries expected_type, the canonical field. *)
HumanLabel(raw, type) ==
  [kind |-> "label", raw |-> raw, source |-> "human", method |-> "human",
   expected |-> type, extracted |-> NoType, keys |-> {}]

(* One label is written and flushed, in one turn of the event loop. *)
Write(label) ==
  /\ silver' = AppendLine(silver, label)
  /\ UNCHANGED <<gold, cuts>>

Count(what) == counts' = [counts EXCEPT ![what] = @ + 1]

(* The lines of the directory, in the order of its files' names. *)
Directory == IF GoldFirst THEN gold \o silver ELSE silver \o gold

\* How many of n there are in a slice [:count].
UpTo(count, n) == IF count < n THEN count ELSE n

(* The job is started: what the file holds is read once. *)
StartJob(s, count) ==
  /\ phase = "idle"
  /\ Decodes(silver)
  /\ runs < MaxRuns
  /\ runs' = runs + 1
  /\ phase' = "looping"
  /\ service' = s
  /\ at' = 1
  /\ limit' = UpTo(count, Len(Messages))
  /\ existing' = ExistingLabels(silver)
  /\ retries' = 0
  /\ counts' = NoCounts
  /\ UNCHANGED <<fileVars, merges, adopted, finished>>

AtMessage == phase = "looping" /\ at <= limit

Advance == at' = at + 1 /\ phase' = "looping" /\ retries' = 0

\* Fault: every message is labelled, whatever the file holds.
HasLabel_Never(message) == FALSE

HasLabel(message) == message.raw \in existing

SkipLabelled ==
  /\ AtMessage
  /\ HasLabel(Messages[at])
  /\ Count("skipped")
  /\ Advance
  /\ UNCHANGED <<service, limit, existing, fileVars, runs, merges, adopted, finished>>

LabelNoise ==
  /\ AtMessage
  /\ ~HasLabel(Messages[at])
  /\ Messages[at].noise
  /\ Write(Label(Messages[at].raw, "noise_filter", Nothing))
  /\ Count("noise")
  /\ Advance
  /\ UNCHANGED <<service, limit, existing, runs, merges, adopted, finished>>

(* The rate limit, the prompt, and the call. *)
AskModel ==
  /\ AtMessage
  /\ ~HasLabel(Messages[at])
  /\ ~Messages[at].noise
  /\ phase' = "calling"
  /\ UNCHANGED <<service, at, limit, existing, retries, counts,
                 fileVars, runs, merges, adopted, finished>>

Extracted(e) ==
  /\ phase = "calling"
  /\ Write(Label(Messages[at].raw, "llm", e))
  /\ Count("extracted")
  /\ Advance
  /\ UNCHANGED <<service, limit, existing, runs, merges, adopted, finished>>

WriteError ==
  /\ Write(Label(Messages[at].raw, "error", Nothing))
  /\ Count("errors")
  /\ Advance
  /\ UNCHANGED <<service, limit, existing, runs, merges, adopted, finished>>

\* Fault: the retries are not counted.
CountRetry_Not == UNCHANGED retries

CountRetry == retries' = retries + 1

(* generate_labels retries a RetryableError, generate_labels_asksage nothing. *)
MayRetry == service = "openai" /\ retries < MaxRetries

Busy ==
  /\ phase = "calling"
  /\ IF MayRetry
     THEN /\ CountRetry
          /\ phase' = "backoff"
          /\ UNCHANGED <<service, at, limit, existing, counts,
                         fileVars, runs, merges, adopted, finished>>
     ELSE WriteError

Refused == phase = "calling" /\ WriteError

BackedOff ==
  /\ phase = "backoff"
  /\ phase' = "calling"
  /\ UNCHANGED <<service, at, limit, existing, retries, counts,
                 fileVars, runs, merges, adopted, finished>>

(* The job is gone, with all it had in memory. *)
NoJob ==
  /\ phase' = "idle" /\ service' = "openai"
  /\ at' = 1 /\ limit' = 0 /\ existing' = {} /\ retries' = 0
  /\ counts' = NoCounts

(* Past the last message: the job reports and ends. *)
FinishJob ==
  /\ phase = "looping"
  /\ at > limit
  /\ NoJob
  /\ finished' = IF limit > finished THEN limit ELSE finished
  /\ UNCHANGED <<fileVars, runs, merges, adopted>>

(* The labels that the job may be writing. *)
BeingWritten ==
  LET raw == Messages[at].raw
  IN  CASE phase = "calling" ->
             {Label(raw, "llm", e) : e \in Extractions} \union {Label(raw, "error", Nothing)}
        [] AtMessage /\ Messages[at].noise /\ ~HasLabel(Messages[at]) ->
             {Label(raw, "noise_filter", Nothing)}
        [] OTHER -> {}

(* The job is killed, perhaps while it writes a label. *)
KillJob ==
  /\ phase # "idle"
  /\ NoJob
  /\ \/ UNCHANGED fileVars
     \/ /\ cuts < MaxCuts
        /\ cuts' = cuts + 1
        /\ \E label \in BeingWritten : \E rest \in Remains(label) : silver' = CutLine(silver, rest)
        /\ UNCHANGED gold
  /\ UNCHANGED <<runs, merges, adopted, finished>>

(* merge_labels, of one new label, into either file. *)
MergeInto(file, label) ==
  IF Merges(file, label) THEN AppendLine(file, label) ELSE file

MergeHuman(raw, type, intoSilver) ==
  LET label == HumanLabel(raw, type)
      file  == IF intoSilver THEN silver ELSE gold
  IN  /\ Decodes(file)
      /\ merges < MaxMerges
      /\ merges' = merges + 1
      /\ IF intoSilver THEN silver' = MergeInto(silver, label) /\ UNCHANGED gold
                       ELSE gold' = MergeInto(gold, label) /\ UNCHANGED silver
      /\ adopted' = IF Merges(file, label) /\ ~EndsOpen(file) THEN adopted \union {raw} ELSE adopted
      /\ UNCHANGED <<jobVars, runs, cuts, finished>>

JobStep ==
  \/ SkipLabelled \/ LabelNoise \/ AskModel
  \/ \E e \in Extractions : Extracted(e)
  \/ Busy \/ Refused \/ BackedOff \/ FinishJob

LabelNext ==
  \/ \E s \in {"openai", "asksage"}, count \in CountOptions : StartJob(s, count)
  \/ JobStep
  \/ KillJob
  \/ \E raw \in RawLines, type \in UpdateTypes, b \in BOOLEAN : MergeHuman(raw, type, b)
===============================================================================
