---------------------------- MODULE SpeakerModel -----------------------------
(***************************************************************************)
(* What an agent learns of a speaker (models/speaker.py).  The six lists   *)
(* that inference adds to are one list of notes; the score is in           *)
(* thousandths, rounded down.                                              *)
(***************************************************************************)
EXTENDS Naturals, SequencesExt

CONSTANTS FirstInferenceAt,    \* _SPEAKER_FIRST_INFERENCE_AT (3)
          InferenceInterval,   \* _SPEAKER_INFERENCE_INTERVAL (10)
          MaxRecent,           \* max_recent (10)
          MaxShown,            \* notes of a kind that a prompt shows (5)
          Nothing              \* None

ASSUME SpeakerAssumption ==
    {FirstInferenceAt, InferenceInterval, MaxRecent, MaxShown} \subseteq Nat \ {0}

\* The activities in the order of primary_sdac_role.
Activities == <<"sensing", "deciding", "acting", "collaborating">>

NewProfile(ts) ==
    [first |-> ts, last |-> ts, count |-> 0, role |-> Nothing, notes |-> <<>>,
     activity |-> [a \in Range(Activities) |-> 0],
     corroborated |-> 0, contradicted |-> 0, score |-> 500, recent |-> <<>>]

LastOf(s, n) == SubSeq(s, IF Len(s) > n THEN Len(s) - n + 1 ELSE 1, Len(s))

\* update_from_message
Heard(p, message, ts) ==
    [p EXCEPT !.last = ts, !.count = @ + 1,
              !.recent = LastOf(Append(@, message), MaxRecent)]

\* _should_infer_speaker
InferenceDue(p) ==
    \/ p.count = FirstInferenceAt
    \/ p.count > FirstInferenceAt /\ (p.count - FirstInferenceAt) % InferenceInterval = 0

\* update_from_inference: notes accumulate; an unknown activity counts nowhere.
Learned(p, r) ==
    [p EXCEPT !.role = IF r.role = Nothing THEN @ ELSE r.role,
              !.notes = FoldLeft(LAMBDA s, x : IF Contains(s, x) THEN s ELSE Append(s, x),
                                 @, r.notes),
              !.activity = [a \in DOMAIN @ |-> IF a = r.activity THEN @[a] + 1 ELSE @[a]]]

\* update_from_fusion_feedback: 0.9 of the old score, and 0.1 for a good report.
Reviewed(p, type) ==
    CASE type = "corroborated" ->
           [p EXCEPT !.corroborated = @ + 1, !.score = (9 * @ + 1000) \div 10]
      [] type = "contradicted" ->
           [p EXCEPT !.contradicted = @ + 1, !.score = (9 * @) \div 10]
      [] type = "deduplicated" -> p

\* primary_sdac_role: the first of the activities that occur most often.
PrimaryActivity(p) ==
    LET most == SelectSeq(Activities, LAMBDA a : p.activity[a] > 0
                    /\ \A b \in DOMAIN p.activity : p.activity[b] <= p.activity[a])
    IN  IF most = <<>> THEN Nothing ELSE Head(most)

\* format_for_prompt; the reliability it prints is never updated.
Introduced(p) ==
    [role |-> p.role, notes |-> SubSeq(p.notes, 1, IF Len(p.notes) < MaxShown
                                                   THEN Len(p.notes) ELSE MaxShown),
     activity |-> PrimaryActivity(p), count |-> p.count, reliability |-> 500]

\* The activities an inference has added up to.
Classified(p) == p.activity["sensing"] + p.activity["deciding"]
                   + p.activity["acting"] + p.activity["collaborating"]
==============================================================================
