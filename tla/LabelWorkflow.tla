---------------------------- MODULE LabelWorkflow -----------------------------
(***************************************************************************)
(* The label tool chain: silver labels are generated, annotators merge     *)
(* theirs, and models are measured and recalibrated against what the files *)
(* hold.                                                                   *)
(***************************************************************************)
EXTENDS LabelEvaluation

vars == <<labelVars, evalVars>>

Init == InitLabels /\ InitEvaluation

Next ==
  \/ LabelNext /\ tool = "off" /\ UNCHANGED evalVars
  \/ EvalNext

Spec == Init /\ [][Next]_vars

(* The OpenAI-compatible client gives up after its timeout, so these loops go *)
(* on; nothing bounds a call of Ask Sage here (no hard_timeout is passed).    *)
GoesOn == service = "openai" /\ JobStep /\ UNCHANGED evalVars

FairSpec == Spec /\ WF_vars(GoesOn) /\ WF_vars(EvalStep)

-----------------------------------------------------------------------------
(* PROPERTIES *)

Readable(raw) ==
  {i \in DOMAIN silver : IsLabel(silver[i]) /\ silver[i].raw = raw /\ silver[i].source = "llm_judge"}

(* What a job that is killed and started again may lose.  However often that   *)
(* happens, while the file can be read: a raw line has at most one readable    *)
(* label of the job per message; after a job that was not killed, every        *)
(* message of it has a label, but for two of each line that a kill left        *)
(* without its end - the label appended to that line, and the one that was     *)
(* whole there, which the resumed job had read and skipped                     *)
(* (generate_silver_labels.py, lines 141-156 and 210-240); and validate_file   *)
(* complains of no more lines than there were such kills.                      *)
LabelledOnce ==
  \A raw \in RawLines :
    Cardinality(Readable(raw)) <= Cardinality({i \in DOMAIN Messages : Messages[i].raw = raw})

Unlabelled == {Messages[i].raw : i \in 1 .. finished} \ ExistingLabels(silver)

ResumeIsExact == Decodes(silver) =>
  /\ LabelledOnce
  /\ Cardinality(Unlabelled) <= 2 * cuts
  /\ ValidateFile(silver).total - ValidateFile(silver).valid <= cuts

(* Trust: once merge_labels has added a label of an annotator, and not behind  *)
(* a line without its end, which garbles both (adopted), everything that reads *)
(* the directory gets it for that message, whatever the job appends before or  *)
(* after it and in whatever order the files come, while they can be read.      *)
(* Where compare_labels finds the directory to disagree with the job's  *)
(* file, an annotator has decided, or the job has labelled the line more than  *)
(* once: load_labels keeps the first, compare_labels the last (labels.py,      *)
(* lines 43-79 and 138-174; analyze_labels.py, lines 105-146).                 *)
TheirLabels == LoadLabels(Directory)

Repeated == {raw \in RawLines : Cardinality(Readable(raw)) > 1}

HumanLabelsPrevail == Decodes(Directory) =>
  /\ \A raw \in adopted : LastOf(TheirLabels, raw).source = "human"
  /\ \A raw \in ExistingLabels(silver) \ adopted : LastOf(TheirLabels, raw).source = "llm_judge"
  /\ CompareLabels(TheirLabels, ReadFile(silver)).disagreed <= Cardinality(adopted \union Repeated)

(* Marks are earned: what a tool counts as right are exactly the answers that  *)
(* were the expected ones, whatever calls were retried, refused or given up,   *)
(* and every item is counted once.  For eval_against_labels while the labels   *)
(* have an extracted_type: it does not read the expected_type of the others.   *)
(* eval_speaker_models, which takes the answers from what a replay stored,     *)
(* gives the same marks, except that a right "none" earns nothing.             *)
OfMachines == \A label \in ToSet(TheirLabels) \union ToSet(ReadFile(silver)) : label.source # "human"

SumOf(f) == Cardinality(UNION {{x} \X (1 .. f[x]) : x \in DOMAIN f})

\* The answer to the last message of that text that got one, for a tool that asks.
Answers(replay, raw) ==
  {i \in DOMAIN Messages :
     Messages[i].raw = raw /\ ~Messages[i].noise /\ replay[i].type # "none"}

Said(replay, raw) ==
  IF Answers(replay, raw) = {} THEN Nothing ELSE replay[Max(Answers(replay, raw))]

ScoreSaid(t, label, replay) ==
  IF label.method = "noise_filter" THEN ScoreNoise(t, IsNoise(label.raw))
  ELSE ScoreAgainst(t, label, Said(replay, label.raw))

Asked(labels, replay) ==
  LET asked[n \in 0 .. Len(labels)] ==
        IF n = 0 THEN NoTally ELSE ScoreSaid(asked[n - 1], labels[n], replay)
  IN  asked[Len(labels)]

OfNothing(label, replay) ==
  /\ label.method # "noise_filter" /\ SilverType(label) = "none"
  /\ Answers(replay, label.raw) = {}

\* Given the last answer to a text for all that are alike, and for labels that are
\* no errors, both count the same answers as exact, but for the labels "none" that
\* are not the filter's: their updates are never stored, and score_run takes them
\* for missed.
SameMarks(labels, replay) ==
  Asked(labels, replay).exact
    = ScoreRun(labels, IndexUpdatesByMessage(StoredUpdates(replay))).exact
      + Cardinality({k \in DOMAIN labels : OfNothing(labels[k], replay)})

ReplayMarks(labels) ==
  \A replay \in [DOMAIN Messages -> Extractions \union {Nothing}] :
    LET run == ScoreRun(labels, IndexUpdatesByMessage(StoredUpdates(replay)))
    IN  /\ run.seen = Len(labels) /\ SumOf(run.typeTotal) = run.seen
        /\ SumOf(run.typeCorrect) = run.relaxed /\ run.exact <= run.relaxed
        /\ Len(run.overlaps) <= run.matched
        /\ SameMarks(WithoutErrors(labels), replay)

MarksAreEarned ==
  /\ tool = "against" =>
       /\ OfMachines => tally.exact = earned
       /\ tally.exact <= tally.relaxed
       /\ SumOf(tally.typeTotal) + tally.errors = tally.seen
       /\ SumOf(tally.typeCorrect) = tally.relaxed
  /\ tool = "recalibrate" => tally.correct = earned
  /\ tool = "models" =>
       /\ tally.TP + tally.FP + tally.FN + tally.TN + tally.ERROR = tally.total
       /\ tally.matched <= tally.expected /\ tally.matched <= tally.extracted
       /\ earned = tally.total =>
            /\ tally.FP + tally.FN + tally.ERROR = 0
            /\ tally.matched = tally.expected /\ tally.matched = tally.extracted
  /\ Ready /\ Decodes(Directory) =>
       \A labels \in {ReadFile(silver), TheirLabels} : ReplayMarks(labels)

(* Every job and every measurement comes to an end, however busy the model is: *)
(* retries are bounded and each of them starts again only once.                *)
ToolsEnd == (phase # "idle" /\ service = "openai") \/ tool # "off" ~> Ready

===============================================================================
