----------------------------- MODULE FusionAgent -----------------------------
(***************************************************************************)
(* Cross-channel fusion of the updates of one batch                        *)
(* (agent/fusion_agent.py).  The quotient in the trust adjustment is       *)
(* rounded down to a thousandth.                                           *)
(***************************************************************************)
EXTENDS CoPUpdate, Integers, SequencesExt, FiniteSets

CONSTANTS SttChannels,      \* those whose name starts with #stt_
          Window            \* temporal_window_seconds

ASSUME FusionAssumption ==
    /\ SttChannels \subseteq Channels /\ Window \in Nat

InjectionPenalty     == 300
SttPenalty           == 150
CorroborationBoost   == 100
ContradictionPenalty == 200

VARIABLES
    speakerStats,   \* _speaker_stats: of a speaker, how often confirmed, how often judged
    channelStats,   \* _channel_stats: of a channel, how many updates without content, how many
    lastFeedback    \* _last_feedback

fusion == <<speakerStats, channelStats, lastFeedback>>

FusionInit ==
    /\ speakerStats = [s \in Speakers |-> [confirmed |-> 0, total |-> 0]]
    /\ channelStats = [c \in Channels |-> [noise |-> 0, total |-> 0]]
    /\ lastFeedback = <<>>

Clamp(c) == IF c < 0 THEN 0 ELSE IF c > 1000 THEN 1000 ELSE c

-----------------------------------------------------------------------------
\* Scoring of a single update.

\* _scan_adversarial and _apply_stt_penalty.
Scanned(u)   == IF u.suspect THEN [u EXCEPT !.conf = Clamp(@ - InjectionPenalty)] ELSE u
Penalised(u) == IF u.channel \in SttChannels
                THEN [u EXCEPT !.conf = Clamp(@ - SttPenalty)] ELSE u

\* (reliability - 0.5) * 0.2, where a speaker who was never judged has 0.5.
Adjustment(s) == IF s.total = 0 THEN 0 ELSE ((200 * s.confirmed) \div s.total) - 100

\* _apply_speaker_trust.
Trusted(u) == [u EXCEPT !.conf = Clamp(@ + Adjustment(speakerStats[u.speaker]))]

Scored(batch) == [k \in DOMAIN batch |-> Trusted(Penalised(Scanned(batch[k])))]

\* _update_stats: the channels' counters after a batch.
Counted(batch) ==
    [c \in Channels |->
        LET here == {k \in DOMAIN batch : batch[k].channel = c}
        IN  [noise |-> channelStats[c].noise
                         + Cardinality({k \in here : batch[k].kind = "none"}),
             total |-> channelStats[c].total + Cardinality(here)]]

-----------------------------------------------------------------------------
\* Groups: the same entity within the window of the first report about it.

\* _entity_key: the track number, else the callsign, of the first entity with one.
EntityKey(u) ==
    LET named == {k \in DOMAIN u.entities : Named(u.entities[k])}
        first == u.entities[CHOOSE k \in named : \A j \in named : k <= j]
    IN  IF named = {} THEN None
        ELSE IF first.track # None THEN <<"tn", first.track>> ELSE <<"cs", first.callsign>>

\* The elements of s at the places that key is given for, by rising keys: a stable
\* sort of them.
Ordered(s, key) ==
    LET Before(j, i) == key[j] < key[i] \/ (key[j] = key[i] /\ j < i)
        Rank(i)      == Cardinality({j \in DOMAIN key : Before(j, i)}) + 1
    IN  [p \in 1 .. Cardinality(DOMAIN key) |-> s[CHOOSE i \in DOMAIN key : Rank(i) = p]]

\* The elements of s at those places, in the order they have in s.
Chosen(s, places) == Ordered(s, [k \in places |-> k])

\* A report joins the group of its entity when it is within the window of the
\* first report there, or else opens a group.  There is at most one to join.
Joins(u, group) ==
    /\ EntityKey(u) # None /\ EntityKey(u) = EntityKey(group[1])
    /\ u.ts - group[1].ts <= Window
Place(groups, u) ==
    IF \E g \in DOMAIN groups : Joins(u, groups[g])
    THEN LET g == CHOOSE g \in DOMAIN groups : Joins(u, groups[g])
         IN  [groups EXCEPT ![g] = Append(@, u)]
    ELSE Append(groups, <<u>>)

\* _group_by_entity_and_time, the groups in the order they are opened.
GroupsOf(sorted) ==
    LET placed[n \in 0 .. Len(sorted)] ==
            IF n = 0 THEN <<>> ELSE Place(placed[n - 1], sorted[n])
    IN  placed[Len(sorted)]
Groups(batch) == GroupsOf(Ordered(batch, [k \in DOMAIN batch |-> batch[k].ts]))

-----------------------------------------------------------------------------
\* Merging a group.

\* _updates_contradict: two statuses or two affiliations that differ.
Differ(x, y) == x # None /\ y # None /\ x # y
Contradict(a, b) ==
    \E i \in DOMAIN a.entities, j \in DOMAIN b.entities :
        \/ Differ(a.entities[i].status, b.entities[j].status)
        \/ Differ(a.entities[i].affiliation, b.entities[j].affiliation)

Signal(u, what) == [channel |-> u.channel, speaker |-> u.speaker, type |-> what]
Signals(s, what) == [k \in DOMAIN s |-> Signal(s[k], what)]

\* Fault: reports from several channels count as agreement before they are compared.
VerdictByChannels(disputed, across) ==
    IF across THEN "corroborated" ELSE IF disputed THEN "contradicted" ELSE "deduplicated"

Verdict(disputed, across) ==
    IF disputed THEN "contradicted" ELSE IF across THEN "corroborated" ELSE "deduplicated"

\* _merge_group: the update that is kept, and the feedback about all of them.
Merge(group) ==
    LET sorted  == Ordered(group, [k \in DOMAIN group |-> -group[k].conf])
        primary == Head(sorted)
        others  == Tail(sorted)
        verdict == Verdict(\E a, b \in Range(group) : a # b /\ Contradict(a, b),
                           Cardinality({u.channel : u \in Range(group)}) > 1)
        change  == CASE verdict = "contradicted" -> -ContradictionPenalty
                     [] verdict = "corroborated" -> CorroborationBoost
                     [] verdict = "deduplicated" -> 0
        losers  == Chosen(others, {k \in DOMAIN others : Contradict(primary, others[k])})
    IN  [kept |-> [primary EXCEPT
                      !.conf = Clamp(@ + change),
                      !.from = @ \o [k \in DOMAIN others |-> Head(others[k].from)]],
         feedback |-> IF verdict = "contradicted"
                      THEN Append(Signals(losers, verdict), Signal(primary, "corroborated"))
                      ELSE Signals(sorted, verdict)]

\* A report alone in its group is kept as it is, without feedback.
Resolve(group) == IF Len(group) = 1 THEN [kept |-> group[1], feedback |-> <<>>]
                  ELSE Merge(group)

\* record_speaker_outcome for each signal that judges a speaker.
Judged(feedback) ==
    [s \in Speakers |->
        LET about == {k \in DOMAIN feedback : /\ feedback[k].speaker = s
                                              /\ feedback[k].type # "deduplicated"}
            good  == {k \in about : feedback[k].type = "corroborated"}
        IN  [confirmed |-> speakerStats[s].confirmed + Cardinality(good),
             total     |-> speakerStats[s].total + Cardinality(about)]]

\* What _fuse returns for a batch, and the feedback it collects.
Fused(batch) ==
    LET groups  == Groups(Scored(batch))
        results == [g \in DOMAIN groups |-> Resolve(groups[g])]
    IN  [out      |-> [g \in DOMAIN results |-> results[g].kept],
         feedback |-> FlattenSeq([g \in DOMAIN results |-> results[g].feedback])]

\* Fault: a failed fusion returns nothing.
OutcomeOrNothing(batch, fails) == IF fails THEN <<>> ELSE Fused(batch).out

\* process_updates: the updates that go on.  When fusion raises (in the sort by
\* time, after the scoring) the batch itself goes on, with the penalties it got.
Outcome(batch, fails) == IF fails THEN Scored(batch) ELSE Fused(batch).out

\* The effect of process_updates on the agent.
ProcessUpdates(batch, fails) ==
    /\ channelStats' = Counted(batch)
    /\ lastFeedback' = IF fails THEN <<>> ELSE Fused(batch).feedback
    /\ speakerStats' = IF fails THEN speakerStats ELSE Judged(Fused(batch).feedback)
==============================================================================
