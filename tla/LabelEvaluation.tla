---------------------------- MODULE LabelEvaluation ---------------------------
(***************************************************************************)
(* The tools that measure a model.  eval_against_labels.py and             *)
(* recalibrate.py ask it again for the messages that have a label;         *)
(* eval_models.py asks a channel agent for messages whose content is known *)
(* (testing/generator.py).  Each goes through its items one after the      *)
(* other and keeps a tally.                                                *)
(***************************************************************************)
EXTENDS SilverLabels

CONSTANT Truth     \* per message of the generator: its [type, keys], or NoTruth for noise

NoTruth == [type |-> NoType, keys |-> {}]

ASSUME TruthAssumption == Truth \in [DOMAIN Messages -> Extractions \union {NoTruth}]

VARIABLES
  tool,        \* off, against, recalibrate or models
  items,       \* what it still has to go through
  asking,      \* where it is: between items, waiting for the model, backing off
  tries,       \* retries of the current item
  tally,       \* what it has counted
  earned       \* history: items whose answer was the one expected

evalVars == <<tool, items, asking, tries, tally, earned>>

NoTally ==
  [seen |-> 0, exact |-> 0, relaxed |-> 0, errors |-> 0, noise |-> 0,
   typeTotal |-> [u \in UpdateTypes |-> 0], typeCorrect |-> [u \in UpdateTypes |-> 0],
   overlaps |-> <<>>]

\* EvalMetrics
NoMetrics ==
  [total |-> 0, TP |-> 0, FP |-> 0, FN |-> 0, TN |-> 0, ERROR |-> 0,
   matched |-> 0, expected |-> 0, extracted |-> 0]

NoPairs == [correct |-> 0, pairs |-> 0, errors |-> 0]

InitEvaluation ==
  /\ tool = "off" /\ items = <<>> /\ asking = "next" /\ tries = 0
  /\ tally = NoTally /\ earned = 0

-----------------------------------------------------------------------------
(* Scoring, as each script does it. *)

\* _types_match_relaxed
TypesMatchRelaxed(a, b) == a = b \/ {a, b} \subseteq {"status_change", "sitrep"}

\* Entity overlap (Jaccard) of two sets that are not both empty, as <<shared, all>>.
Overlap(a, b) == <<Cardinality(a \intersect b), Cardinality(a \union b)>>

\* Fault: related types count as the same type.
ExactMatch_Related(candidate, labelled) == TypesMatchRelaxed(candidate, labelled)

ExactMatch(candidate, labelled) == candidate = labelled

Bump(cond, n) == IF cond THEN n + 1 ELSE n

\* eval_against_labels: what a label says ("none" for one without extracted_type).
SilverType(label) == IF label.extracted = NoType THEN "none" ELSE label.extracted

\* The types of a label and of a candidate are compared.
ScoreType(t, labelled, candidate) ==
  LET relaxed == TypesMatchRelaxed(candidate, labelled)
  IN  [t EXCEPT !.exact = Bump(ExactMatch(candidate, labelled), @),
                !.relaxed = Bump(relaxed, @),
                !.typeTotal[labelled] = @ + 1,
                !.typeCorrect[labelled] = Bump(relaxed, @)]

\* ...and their entities.
ScoreEntities(t, labelled, candidate) ==
  IF labelled = {} /\ candidate = {} THEN t
  ELSE [t EXCEPT !.overlaps = Append(@, Overlap(labelled, candidate))]

ScoreAgainst(t, label, e) ==
  ScoreEntities(ScoreType([t EXCEPT !.seen = @ + 1], SilverType(label), e.type), label.keys, e.keys)

\* A label of the noise filter: only whether the filter still agrees.
ScoreNoise(t, agrees) ==
  [t EXCEPT !.seen = @ + 1, !.noise = @ + 1, !.typeTotal["none"] = @ + 1,
            !.exact = Bump(agrees, @), !.relaxed = Bump(agrees, @),
            !.typeCorrect["none"] = Bump(agrees, @)]

\* recalibrate: _get_expected_type tries both names of the field.
ExpectedType(label) == IF label.expected # NoType THEN label.expected ELSE label.extracted

\* What an agent returned for a message: nothing, an error update, or an update.
Filtered == [method |-> "none"]
Failed   == [method |-> "error"]
Update(e) == [method |-> "llm", type |-> e.type, keys |-> e.keys]

\* eval_models: _score
Score(truth, got) ==
  CASE got = Filtered -> IF truth = NoTruth THEN "TN" ELSE "FN"
    [] got = Failed -> "ERROR"
    [] got \notin {Filtered, Failed} /\ truth = NoTruth -> IF got.type = "none" THEN "TN" ELSE "FP"
    [] OTHER -> IF TypesMatchRelaxed(got.type, truth.type) THEN "TP" ELSE "FP"

\* eval_models: _score_entities, for entities with one key each.
GotKeys(got) == IF got \in {Filtered, Failed} THEN {} ELSE got.keys

EntityScore(truth, got) ==
  [matched   |-> Cardinality(truth.keys \intersect GotKeys(got)),
   expected  |-> Cardinality(truth.keys),
   extracted |-> Cardinality(GotKeys(got))]

\* eval_model: one message.
ScoreModel(m, truth, got) ==
  LET s == EntityScore(truth, got)
  IN  [m EXCEPT ![Score(truth, got)] = @ + 1, !.total = @ + 1,
                !.matched = @ + s.matched, !.expected = @ + s.expected,
                !.extracted = @ + s.extracted]

\* eval_speaker_models compares the labels with what a replay has stored.
\* load_replay_updates: its updates in the order of time; none of noise or of
\* type "none", which the agents drop.
StoredUpdates(replay) ==
  Chosen([i \in DOMAIN Messages |->
            [raw |-> Messages[i].raw, type |-> replay[i].type, keys |-> replay[i].keys]],
         {i \in DOMAIN Messages : ~Messages[i].noise /\ replay[i].type # "none"})

\* Fault: the first update of a key wins.
FirstOf(updates, raw) ==
  LET places == {k \in DOMAIN updates : updates[k].raw = raw}
  IN  updates[CHOOSE k \in places : \A j \in places : k <= j]
IndexUpdatesByMessage_First(updates) ==
  [raw \in {u.raw : u \in Range(updates)} |-> FirstOf(updates, raw)]

\* index_updates_by_message: a speaker's messages of the same text share a key,
\* the last one wins.
IndexUpdatesByMessage(updates) ==
  [raw \in {u.raw : u \in Range(updates)} |-> LastOf(updates, raw)]

\* RunMetrics
NoRun ==
  [seen |-> 0, matched |-> 0, exact |-> 0, relaxed |-> 0, noise |-> 0,
   typeTotal |-> [u \in UpdateTypes |-> 0], typeCorrect |-> [u \in UpdateTypes |-> 0],
   overlaps |-> <<>>]

\* score_run, one label: a label of noise, one without an update, or one with.
ScoreReplayed(m, label, index) ==
  LET found == label.raw \in DOMAIN index
      t == [m EXCEPT !.seen = @ + 1]
  IN  CASE SilverType(label) = "none" /\ label.method = "noise_filter" ->
             ScoreNoise(m, ~found)
        [] found /\ ~(SilverType(label) = "none" /\ label.method = "noise_filter") ->
             ScoreEntities(ScoreType([t EXCEPT !.matched = @ + 1], SilverType(label),
                                     index[label.raw].type),
                           label.keys, index[label.raw].keys)
        [] OTHER -> [t EXCEPT !.typeTotal[SilverType(label)] = @ + 1]

ScoreRun(labels, index) ==
  LET run[n \in 0 .. Len(labels)] ==
        IF n = 0 THEN NoRun ELSE ScoreReplayed(run[n - 1], labels[n], index)
  IN  run[Len(labels)]

-----------------------------------------------------------------------------
(* The tools run while no labelling job does (a bound). *)
Ready == tool = "off" /\ phase = "idle"

Begin(t, todo, start) ==
  /\ Ready
  /\ todo # <<>>
  /\ tool' = t /\ items' = todo /\ tally' = start
  /\ asking' = "next" /\ tries' = 0 /\ earned' = 0
  /\ UNCHANGED labelVars

WithoutErrors(labels) == Chosen(labels, {i \in DOMAIN labels : labels[i].method # "error"})

(* main and eval_against_labels: the labels of one file, or of the directory, *)
(* the first count of them, without the errors among those.                   *)
BeginAgainst(labels, count) ==
  Begin("against", WithoutErrors(SubSeq(labels, 1, UpTo(count, Len(labels)))), NoTally)

Scorable(labels) ==
  Chosen(labels, {i \in DOMAIN labels : labels[i].method \notin {"error", "noise_filter"}})

BeginRecalibrate ==
  Decodes(Directory) /\ Begin("recalibrate", Scorable(LoadLabels(Directory)), NoPairs)

BeginModels == Begin("models", [i \in DOMAIN Messages |-> i], NoMetrics)

IsNoise(raw) == \E i \in DOMAIN Messages : Messages[i].raw = raw /\ Messages[i].noise

(* The next item; the last one ends the tool. *)
Done(newTally, wasRight) ==
  /\ items' = Tail(items)
  /\ tally' = newTally
  /\ earned' = Bump(wasRight, earned)
  /\ asking' = "next"
  /\ tries' = 0
  /\ UNCHANGED <<tool, labelVars>>

AtItem(t) == tool = t /\ items # <<>> /\ asking = "next"

AgainstNoise ==
  /\ AtItem("against")
  /\ Head(items).method = "noise_filter"
  /\ LET agrees == IsNoise(Head(items).raw) IN Done(ScoreNoise(tally, agrees), agrees)

(* The label has content, but the filter drops the message: "none" is the answer. *)
AgainstFiltered ==
  /\ AtItem("against")
  /\ Head(items).method # "noise_filter"
  /\ IsNoise(Head(items).raw)
  /\ Done(ScoreAgainst(tally, Head(items), Nothing), ExpectedType(Head(items)) = "none")

AskAbout ==
  /\ \/ AtItem("recalibrate")
     \/ /\ AtItem("against")
        /\ Head(items).method # "noise_filter"
        /\ ~IsNoise(Head(items).raw)
  /\ asking' = "calling"
  /\ UNCHANGED <<tool, items, tries, tally, earned, labelVars>>

Answer(e) ==
  /\ asking = "calling"
  /\ LET label == Head(items)
         right == e.type = ExpectedType(label)
     IN  IF tool = "against"
         THEN Done(ScoreAgainst(tally, label, e), right)
         ELSE Done([tally EXCEPT !.pairs = @ + 1, !.correct = Bump(right, @)], right)

GiveUpItem ==
  Done(IF tool = "against" THEN [tally EXCEPT !.seen = @ + 1, !.errors = @ + 1]
                           ELSE [tally EXCEPT !.errors = @ + 1], FALSE)

ModelBusy ==
  /\ asking = "calling"
  /\ IF tries < MaxRetries
     THEN /\ asking' = "backoff"
          /\ tries' = tries + 1
          /\ UNCHANGED <<tool, items, tally, earned, labelVars>>
     ELSE GiveUpItem

ModelRefuses == asking = "calling" /\ GiveUpItem

AskAgain ==
  /\ asking = "backoff"
  /\ asking' = "calling"
  /\ UNCHANGED <<tool, items, tries, tally, earned, labelVars>>

(* The agent's answer to a generated message: it drops what its filter or the *)
(* model calls noise, and never raises.                                       *)
AgentAnswers(got) ==
  /\ AtItem("models")
  /\ got # Filtered => ~Messages[Head(items)].noise
  /\ LET truth == Truth[Head(items)]
     IN  Done(ScoreModel(tally, truth, got),
              IF truth = NoTruth THEN got = Filtered ELSE got = Update(truth))

AgentReturns ==
  {Filtered, Failed} \union {Update(e) : e \in {x \in Extractions : x.type # "none"}}

Report ==
  /\ tool # "off"
  /\ items = <<>>
  /\ tool' = "off"
  /\ tally' = NoTally
  /\ earned' = 0
  /\ UNCHANGED <<items, asking, tries, labelVars>>

EvalStep ==
  \/ AgainstNoise \/ AgainstFiltered \/ AskAbout
  \/ \E e \in Extractions : Answer(e)
  \/ ModelBusy \/ ModelRefuses \/ AskAgain
  \/ \E got \in AgentReturns : AgentAnswers(got)
  \/ Report

EvalNext ==
  \/ /\ Decodes(silver)
     /\ \E labels \in {ReadFile(silver), LoadLabels(Directory)} :
           \E count \in CountOptions : BeginAgainst(labels, count)
  \/ BeginRecalibrate
  \/ BeginModels
  \/ EvalStep
===============================================================================
